---- MODULE Spec2Model ----
\* A model of django-backblaze-b2: the lazy file handle (b2_file.py), the
\* cache-backed account info store (cache_account_info.py) and the storage
\* class (storage.py).
EXTENDS Integers, Sequences, FiniteSets, TLC

\* ---------------------------------------------------------------------------
\* Bounds
\* ---------------------------------------------------------------------------
\* longest payload handed to write() / stored in the bucket
MaxLen == 1
\* number of operations invoked on one handle
MaxOps == 4

\* ---------------------------------------------------------------------------
\* Values shared by both components
\* ---------------------------------------------------------------------------
\* Python's None, where it is compared with strings
None == "None"

Byte == {1, 2}

RECURSIVE SeqsUpTo(_, _)
SeqsUpTo(S, n) ==
  IF n = 0 THEN {<<>>}
  ELSE LET shorter == SeqsUpTo(S, n - 1)
       IN  shorter \cup {Append(s, x) : s \in {t \in shorter : Len(t) = n - 1}, x \in S}

Payloads == SeqsUpTo(Byte, MaxLen)

Min(a, b) == IF a < b THEN a ELSE b

\* ===========================================================================
\* B2File  (src/django_backblaze_b2/b2_file.py)
\* ===========================================================================
VARIABLES
  mode,              \* B2File._mode, a sequence of characters
  hasUnwrittenData,  \* B2File._hasUnwrittenData
  contents,          \* B2File._contents: <<>> is None, <<b>> is the BytesIO b
  remote,            \* the object stored under the handle's name: <<>> absent, <<bytes>> present
  calls,             \* the calls received by the bucket, in order
  fret,              \* outcome of the last operation on the handle
  hist               \* the operations invoked on the handle so far

varsFile == <<mode, hasUnwrittenData, contents, remote, calls, fret, hist>>

\* the variables of DjangoCacheAccountInfo (cache_account_info.py)
VARIABLES
  cache,      \* the django cache behind DjangoCacheAccountInfo.cache: key -> value
  ret,        \* the last call on the store and its outcome
  lastSet,    \* the arguments of the last _set_auth_data call
  authState   \* "unset", "set" after _set_auth_data, "cleared" after clear()

varsCache == <<cache, ret, lastSet, authState>>

\* the variables of BackblazeB2Storage (storage.py)
VARIABLES
  storage,    \* the storage object: its options, hasattr(_b2Api), _bucket
  b2,         \* the B2 service: the bucket and the file versions stored in it
  apiCalls,   \* the calls B2Api and the Bucket received during the last call on
              \* the storage object, in order
  sret,       \* the last call on the storage object and its outcome
  settings,   \* django.conf.settings.BACKBLAZE_CONFIG: <<>> missing, <<dict>> set
  inst        \* the instance __init__ ran on last: its class, keyword arguments,
              \* resolved options, log lines, error message and _bucket_type

varsStorage == <<storage, b2, apiCalls, sret, settings, inst>>

\* the variables of FileMetaShim (b2_filemeta_shim.py) and of the stores that
\* share one django cache (cache_account_info.py)
VARIABLES
  shim,       \* the FileMetaShim object: _meta, <<>> while the attribute is not set
  workers     \* per store, the call it is in: the operation, its arguments, the
              \* cache operation it makes next and the list it has read

varsOther == <<shim, workers>>

vars == <<mode, hasUnwrittenData, contents, remote, calls, fret, hist,
          cache, ret, lastSet, authState, storage, b2, apiCalls, sret, settings, inst,
          shim, workers>>

\* open() modes: "r", "rb", "w", "wb"
Modes == {<<"r">>, <<"r", "b">>, <<"w">>, <<"w", "b">>}

\* io.BytesIO(initial_bytes): position 0, open
BytesIO(initial_bytes) == [data |-> initial_bytes, pos |-> 0, closed |-> FALSE]

\* io.BytesIO.read(size): size < 0 reads to the end; the position advances
BytesIO_read(b, size) ==
  LET upto == IF size < 0 THEN Len(b.data) ELSE Min(b.pos + size, Len(b.data))
  IN  [b     |-> [b EXCEPT !.pos = upto],
       bytes |-> SubSeq(b.data, b.pos + 1, upto)]

\* the handle and the bucket it talks to, as one value threaded through the methods
Self == [contents |-> contents, hasUnwrittenData |-> hasUnwrittenData,
         remote |-> remote, calls |-> calls]

NoResult == [exc |-> None, bytes |-> <<>>, n |-> 0]
Raise(e) == [exc |-> e, bytes |-> <<>>, n |-> 0]

\* B2File._readFileContents: one download_file_by_name call; FileNotPresent when
\* the object is absent
readFileContents(self) ==
  IF self.remote = <<>>
  THEN [self |-> [self EXCEPT !.calls = Append(@, [call |-> "download", ok |-> FALSE])],
        exc  |-> "FileNotPresent",
        io   |-> <<>>]
  ELSE [self |-> [self EXCEPT !.calls = Append(@, [call |-> "download", ok |-> TRUE])],
        exc  |-> None,
        io   |-> <<BytesIO(self.remote[1])>>]

\* file() without the "is None" test: every access downloads again
file_always_downloads(self) ==
  LET r == readFileContents(self)
  IN  [self |-> [r.self EXCEPT !.contents = r.io], exc |-> r.exc]

\* B2File.file (getter): downloads only while _contents is None
file(self) ==
  IF self.contents = <<>>
  THEN LET r == readFileContents(self)
       IN  [self |-> [r.self EXCEPT !.contents = r.io], exc |-> r.exc]
  ELSE [self |-> self, exc |-> None]

\* "w" not in self._mode
NotOpenedForWrite(m) == ~ \E i \in 1..Len(m) : m[i] = "w"

\* B2File.read
read(self, num_bytes) ==
  LET f == file(self)
  IN  IF f.exc # None THEN [self |-> f.self, out |-> Raise(f.exc)]
      ELSE IF f.self.contents[1].closed THEN [self |-> f.self, out |-> Raise("ValueError")]
      ELSE LET r == BytesIO_read(f.self.contents[1], num_bytes)
           IN  [self |-> [f.self EXCEPT !.contents = <<r.b>>],
                out  |-> [exc |-> None, bytes |-> r.bytes, n |-> 0]]

\* write() that fills an empty BytesIO and leaves the position at its end
write_not_rewound(self, m, content) ==
  IF NotOpenedForWrite(m)
  THEN [self |-> self, out |-> Raise("AttributeError")]
  ELSE [self |-> [self EXCEPT !.contents = <<[BytesIO(content) EXCEPT !.pos = Len(content)]>>,
                              !.hasUnwrittenData = TRUE],
        out  |-> [exc |-> None, bytes |-> <<>>, n |-> Len(content)]]

\* write() that replaces the buffer before it tests the mode
write_checks_mode_late(self, m, content) ==
  IF NotOpenedForWrite(m)
  THEN [self |-> [self EXCEPT !.contents = <<BytesIO(content)>>], out |-> Raise("AttributeError")]
  ELSE [self |-> [self EXCEPT !.contents = <<BytesIO(content)>>,
                              !.hasUnwrittenData = TRUE],
        out  |-> [exc |-> None, bytes |-> <<>>, n |-> Len(content)]]

\* B2File.write
write(self, m, content) ==
  IF NotOpenedForWrite(m)
  THEN [self |-> self, out |-> Raise("AttributeError")]
  ELSE [self |-> [self EXCEPT !.contents = <<BytesIO(content)>>,
                              !.hasUnwrittenData = TRUE],
        out  |-> [exc |-> None, bytes |-> <<>>, n |-> Len(content)]]

\* B2File.saveAndRetrieveFile: upload_bytes(data_bytes=content.read(), ...);
\* uploadOk is the outcome of the remote call
saveAndRetrieveFile(self, uploadOk) ==
  LET r    == BytesIO_read(self.contents[1], -1)
      sent == [self EXCEPT !.contents = <<r.b>>,
                           !.calls = Append(@, [call |-> "upload", data |-> r.bytes, ok |-> uploadOk])]
  IN  IF uploadOk
      THEN [self |-> [sent EXCEPT !.remote = <<r.bytes>>, !.hasUnwrittenData = FALSE],
            exc  |-> None]
      ELSE [self |-> sent, exc |-> "B2Error"]

\* B2File.close
close(self, uploadOk) ==
  LET saved == IF self.hasUnwrittenData
               THEN saveAndRetrieveFile(file(self).self, uploadOk)
               ELSE [self |-> self, exc |-> None]
      f     == file(saved.self)
  IN  IF saved.exc # None THEN [self |-> saved.self, out |-> Raise(saved.exc)]
      ELSE IF f.exc # None THEN [self |-> f.self, out |-> Raise(f.exc)]
      ELSE [self |-> [f.self EXCEPT !.contents = <<[@[1] EXCEPT !.closed = TRUE]>>],
            out  |-> NoResult]

\* the state after one method returned (or raised) with result r
Returned(r, op, arg) ==
  /\ contents' = r.self.contents
  /\ hasUnwrittenData' = r.self.hasUnwrittenData
  /\ remote' = r.self.remote
  /\ calls' = r.self.calls
  /\ fret' = r.out
  /\ hist' = Append(hist, [op |-> op, arg |-> arg])
  /\ UNCHANGED mode
  /\ UNCHANGED varsCache
  /\ UNCHANGED varsStorage
  /\ UNCHANGED varsOther

\* read(num_bytes): None (not an int) is passed on as -1
ReadSizes == {-1, 0, 1}

Read ==
  /\ Len(hist) < MaxOps
  /\ \E num_bytes \in ReadSizes : Returned(read(Self, num_bytes), "read", <<num_bytes>>)

Write ==
  /\ Len(hist) < MaxOps
  /\ \E content \in Payloads : Returned(write(Self, mode, content), "write", content)

Close ==
  /\ Len(hist) < MaxOps
  /\ \E uploadOk \in (IF hasUnwrittenData THEN BOOLEAN ELSE {TRUE}) :
       Returned(close(Self, uploadOk), "close", <<>>)

\* B2File.__init__: nothing buffered, nothing to upload; the object may or may
\* not exist in the bucket

\* ===========================================================================
\* DjangoCacheAccountInfo  (src/django_backblaze_b2/cache_account_info.py)
\* ===========================================================================
\* longest "bucket_names" list save_bucket still appends to
MaxNames == 2
\* longest list of pairs handed to refresh_entire_bucket_name_cache
MaxPairs == 2

BucketNames == {"some-name", "other-name", "another-name"}
BucketIds == {"some-id", "other-id"}

\* --- django.core.cache: get / set / delete / clear -------------------------
EmptyCache == <<>>

cache_get(c, key, default) == IF key \in DOMAIN c THEN c[key] ELSE default

cache_set(c, key, value) ==
  [k \in DOMAIN c \cup {key} |-> IF k = key THEN value ELSE c[k]]

cache_delete(c, key) == [k \in DOMAIN c \ {key} |-> c[k]]

\* the two fixed keys, and the key of one bucket: the text that is hashed
KeyAccountInfo == <<"cached_account_info">>
KeyBucketNames == <<"bucket_names">>
bucket_cachekey(bucket_name) == <<"bucket-name__", bucket_name>>

\* --- the session -----------------------------------------------------------
Fields == {"account_id", "auth_token", "api_url", "download_url",
           "recommended_part_size", "absolute_minimum_part_size",
           "application_key", "realm", "s3_api_url", "allowed",
           "application_key_id"}

\* the arguments of _set_auth_data, by parameter name
AuthArgsA ==
  [account_id |-> "account-id", auth_token |-> "auth-token", api_url |-> "api-url",
   download_url |-> "download-url", recommended_part_size |-> "recommended-part-size",
   absolute_minimum_part_size |-> "absolute-minimum-part-size",
   application_key |-> "application-key", realm |-> "realm",
   s3_api_url |-> "http://s3-api-url/", allowed |-> "allowed",
   application_key_id |-> "application-key-id"]

AuthArgsB ==
  [account_id |-> "account-id2", auth_token |-> "auth-token2", api_url |-> "api-url2",
   download_url |-> "download-url2", recommended_part_size |-> "recommended-part-size2",
   absolute_minimum_part_size |-> "absolute-minimum-part-size2",
   application_key |-> "application-key2", realm |-> "realm2",
   s3_api_url |-> "http://s3-api-url/2", allowed |-> "allowed2",
   application_key_id |-> "application-key-id2"]

\* complete argument lists, and lists with one argument None
AuthArgs == {AuthArgsA, AuthArgsB} \cup {[AuthArgsA EXCEPT ![f] = None] : f \in Fields}

\* the dict _set_auth_data stores
set_auth_data_swapped(a) ==
  [account_id |-> a.account_id, auth_token |-> a.application_key, api_url |-> a.api_url,
   download_url |-> a.download_url, recommended_part_size |-> a.recommended_part_size,
   absolute_minimum_part_size |-> a.absolute_minimum_part_size,
   application_key |-> a.auth_token, realm |-> a.realm,
   s3_api_url |-> a.s3_api_url, allowed |-> a.allowed,
   application_key_id |-> a.application_key_id]

set_auth_data(a) ==
  [account_id |-> a.account_id, auth_token |-> a.auth_token, api_url |-> a.api_url,
   download_url |-> a.download_url, recommended_part_size |-> a.recommended_part_size,
   absolute_minimum_part_size |-> a.absolute_minimum_part_size,
   application_key |-> a.application_key, realm |-> a.realm,
   s3_api_url |-> a.s3_api_url, allowed |-> a.allowed,
   application_key_id |-> a.application_key_id]

\* dict.get(key)
dict_get(d, key) == IF key \in DOMAIN d THEN d[key] ELSE None

\* DjangoCacheAccountInfo._cached_info
cached_info(c) == cache_get(c, KeyAccountInfo, <<>>)

\* the getters wrapped by _handle_result_is_none, and the key each one reads
GetterField ==
  [get_application_key |-> "application_key",
   get_application_key_id |-> "application_key_id",
   get_account_id |-> "account_id",
   get_api_url |-> "api_url",
   get_account_auth_token |-> "auth_token",
   get_download_url |-> "download_url",
   get_realm |-> "realm",
   get_absolute_minimum_part_size |-> "absolute_minimum_part_size",
   get_recommended_part_size |-> "recommended_part_size",
   get_allowed |-> "allowed"]

Getters == DOMAIN GetterField

\* _handle_result_is_none: a None result clears the cache and raises
handle_result_is_none(c, result) ==
  IF result = None
  THEN [cache |-> EmptyCache, exc |-> "MissingAccountData", val |-> None]
  ELSE [cache |-> c, exc |-> None, val |-> result]

\* get_<field>
getter(c, g) == handle_result_is_none(c, dict_get(cached_info(c), GetterField[g]))

\* get_s3_api_url: self._cached_info().get("s3_api_url") or ""
get_s3_api_url(c) ==
  LET v == dict_get(cached_info(c), "s3_api_url")
  IN  IF v = None \/ v = "" THEN "" ELSE v

\* --- the bucket index ------------------------------------------------------
\* truth value of a cached id
Truthy(v) == v # None /\ v # ""

get_bucket_id_or_none_from_bucket_name(c, bucket_name) ==
  cache_get(c, bucket_cachekey(bucket_name), None)

\* the loop of get_bucket_name_or_none_from_bucket_id over the names from
\* position i on: the id read inside the loop replaces the argument
RECURSIVE name_from_id_loop(_, _, _, _)
name_from_id_loop(c, names, i, bucket_id) ==
  IF i > Len(names) THEN None
  ELSE LET found == cache_get(c, bucket_cachekey(names[i]), None)
       IN  IF Truthy(found) THEN names[i]
           ELSE name_from_id_loop(c, names, i + 1, found)

get_bucket_name_or_none_from_bucket_id(c, bucket_id) ==
  name_from_id_loop(c, cache_get(c, KeyBucketNames, <<>>), 1, bucket_id)

remove_bucket_name(c, bucket_name) ==
  LET keep(n) == n # bucket_name
  IN  cache_delete(cache_set(c, KeyBucketNames,
                             SelectSeq(cache_get(c, KeyBucketNames, <<>>), keep)),
                   bucket_cachekey(bucket_name))

save_bucket(c, name, id_) ==
  LET stored == cache_set(c, bucket_cachekey(name), id_)
  IN  cache_set(stored, KeyBucketNames,
                Append(cache_get(stored, KeyBucketNames, <<>>), name))

Range(sq) == {sq[i] : i \in 1..Len(sq)}

\* the names of a list of (name, id) pairs
PairNames(pairs) == {pairs[i][1] : i \in 1..Len(pairs)}

\* first loop of refresh_entire_bucket_name_cache: set each pair's key
RECURSIVE set_pairs(_, _, _)
set_pairs(c, pairs, i) ==
  IF i > Len(pairs) THEN c
  ELSE set_pairs(cache_set(c, bucket_cachekey(pairs[i][1]), pairs[i][2]), pairs, i + 1)

\* second loop: remove the names in the order the set yields them
RECURSIVE remove_names(_, _, _)
remove_names(c, order, i) ==
  IF i > Len(order) THEN c
  ELSE remove_names(remove_bucket_name(c, order[i]), order, i + 1)

bucket_names_to_remove(c, name_id_iterable) ==
  Range(cache_get(c, KeyBucketNames, <<>>)) \ PairNames(name_id_iterable)

\* the orders in which a set can be iterated
Orders(S) == {o \in [1..Cardinality(S) -> S] : \A x \in S : \E i \in DOMAIN o : o[i] = x}

\* refresh that registers each pair with save_bucket
refresh_with_save_bucket(c, name_id_iterable, order) ==
  LET RECURSIVE save_pairs(_, _)
      save_pairs(cc, i) ==
        IF i > Len(name_id_iterable) THEN cc
        ELSE save_pairs(save_bucket(cc, name_id_iterable[i][1], name_id_iterable[i][2]), i + 1)
  IN  remove_names(save_pairs(c, 1), order, 1)

\* refresh_entire_bucket_name_cache; order is the iteration order of
\* bucket_names_to_remove
refresh_entire_bucket_name_cache(c, name_id_iterable, order) ==
  remove_names(set_pairs(c, name_id_iterable, 1), order, 1)

\* clear that drops the session only
clear_session_only(c) == cache_set(cache_delete(c, KeyAccountInfo), KeyBucketNames, <<>>)

\* DjangoCacheAccountInfo.clear
clear(c) == cache_set(EmptyCache, KeyBucketNames, <<>>)

\* DjangoCacheAccountInfo.__init__ over the cache c
construct(c) == cache_set(c, KeyBucketNames, <<>>)

\* --- actions ---------------------------------------------------------------
Outcome(op, arg, exc, val, removed) ==
  [op |-> op, arg |-> arg, exc |-> exc, val |-> val, removed |-> removed]

\* the state after one call on the store: the cache c and the outcome r
Answered(c, r) ==
  /\ cache' = c
  /\ ret' = r
  /\ UNCHANGED varsFile
  /\ UNCHANGED varsStorage
  /\ UNCHANGED varsOther

\* lists of pairs as a bucket listing yields them: no name twice
PairLists ==
  {p \in SeqsUpTo(BucketNames \X BucketIds, MaxPairs) :
     \A i, j \in 1..Len(p) : i # j => p[i][1] # p[j][1]}

Construct ==
  /\ Answered(construct(cache), Outcome("__init__", <<>>, None, None, {}))
  /\ UNCHANGED <<lastSet, authState>>

Clear ==
  /\ Answered(clear(cache), Outcome("clear", <<>>, None, None, {}))
  /\ authState' = IF authState = "unset" THEN "unset" ELSE "cleared"
  /\ UNCHANGED lastSet

\* _set_auth_data with one of the argument lists of args
SetAuthDataOf(args) ==
  \E a \in args :
    /\ Answered(cache_set(cache, KeyAccountInfo, set_auth_data(a)),
                Outcome("_set_auth_data", <<>>, None, None, {}))
    /\ lastSet' = a
    /\ authState' = "set"

SetAuthData == SetAuthDataOf(AuthArgs)

\* _set_auth_data as authorize_account calls it: no argument is None
SetCompleteAuthData == SetAuthDataOf({AuthArgsA, AuthArgsB})

Get ==
  \E g \in Getters :
    LET r == getter(cache, g)
    IN  /\ Answered(r.cache, Outcome(g, <<>>, r.exc, r.val, {}))
        /\ UNCHANGED <<lastSet, authState>>

GetS3ApiUrl ==
  /\ Answered(cache, Outcome("get_s3_api_url", <<>>, None, get_s3_api_url(cache), {}))
  /\ UNCHANGED <<lastSet, authState>>

GetBucketId ==
  \E n \in BucketNames :
    /\ Answered(cache, Outcome("get_bucket_id_or_none_from_bucket_name", <<n>>, None,
                               get_bucket_id_or_none_from_bucket_name(cache, n), {}))
    /\ UNCHANGED <<lastSet, authState>>

GetBucketName ==
  \E i \in BucketIds :
    /\ Answered(cache, Outcome("get_bucket_name_or_none_from_bucket_id", <<i>>, None,
                               get_bucket_name_or_none_from_bucket_id(cache, i), {}))
    /\ UNCHANGED <<lastSet, authState>>

Refresh ==
  \E pairs \in PairLists :
    \E order \in Orders(bucket_names_to_remove(cache, pairs)) :
      /\ Answered(refresh_entire_bucket_name_cache(cache, pairs, order),
                  Outcome("refresh_entire_bucket_name_cache", pairs, None, None,
                          bucket_names_to_remove(cache, pairs)))
      /\ UNCHANGED <<lastSet, authState>>

SaveBucket ==
  /\ Len(cache_get(cache, KeyBucketNames, <<>>)) < MaxNames
  /\ \E n \in BucketNames, i \in BucketIds :
       /\ Answered(save_bucket(cache, n, i), Outcome("save_bucket", <<n, i>>, None, None, {}))
       /\ UNCHANGED <<lastSet, authState>>

RemoveBucketName ==
  \E n \in BucketNames :
    /\ Answered(remove_bucket_name(cache, n),
                Outcome("remove_bucket_name", <<n>>, None, None, {}))
    /\ UNCHANGED <<lastSet, authState>>

\* ===========================================================================
\* BackblazeB2Storage  (src/django_backblaze_b2/storage.py)
\* ===========================================================================
\* number of file versions the bucket holds after which nothing is saved
MaxVersions == 2

\* opts["bucket"], the default of options.py
BucketName == "django"

FileNames == {"some/file.txt"}

\* the contents handed to save: of one byte and of two
SavedContents == {<<1>>, <<1, 2>>}

\* self._authInfo: the realm, application_key_id and application_key of opts
AuthInfo == <<"production", "some-key-id", "some-key">>

\* a dict as the set of its (key, value) pairs
NewBucketDetails == {{}, {<<"bucket_type", "allPublic">>}}

\* the options __init__ reads; nonExistentBucketDetails is <<>> for None
StorageOptions ==
  [authorizeOnInit : BOOLEAN,
   validateOnInit : BOOLEAN,
   forbidFilePropertyCaching : BOOLEAN,
   nonExistentBucketDetails : {<<>>} \cup {<<d>> : d \in NewBucketDetails}]

\* an object before __init__ ran: neither _b2Api nor _bucket is set;
\* authorized records that authorize_account has returned for its B2Api
NewStorage(opts) ==
  [opts |-> opts, constructed |-> FALSE, hasB2Api |-> FALSE, bucket |-> <<>>,
   authorized |-> FALSE]

\* the machine a call on the storage object runs on
Machine == [st |-> storage, b2 |-> b2, cache |-> cache, calls |-> <<>>]

Ok(s, val) == [s |-> s, exc |-> None, val |-> val]

Raised(s, exc) == [s |-> s, exc |-> exc, val |-> None]

\* K applied to the outcome r of a call
Bind(r, K(_)) == CHOOSE x \in {K(a) : a \in {r}} : TRUE

\* r, and K after it unless r raised
Then(r, K(_)) == Bind(r, LAMBDA a : IF a.exc # None THEN a ELSE K(a))

\* the call is recorded with the exception it ended with
Logged(s, call, args, exc) ==
  [s EXCEPT !.calls = Append(@, [call |-> call, args |-> args, exc |-> exc])]

\* the remote calls; fault names the call that fails with a B2Error if made
RemoteCalls == {"authorize_account", "get_bucket_by_name", "create_bucket",
                "get_file_info_by_name", "delete_file_version", "upload_bytes"}

Faults == {None} \cup RemoteCalls

\* B2Api.authorize_account(**self._authInfo)
authorize_account(s, fault) ==
  IF fault = "authorize_account"
  THEN Raised(Logged(s, "authorize_account", AuthInfo, "B2Error"), "B2Error")
  ELSE Ok([Logged(s, "authorize_account", AuthInfo, None) EXCEPT !.st.authorized = TRUE],
          None)

\* the account info that is always authorized again
b2Api_always_authorizes(s, fault) ==
  authorize_account([s EXCEPT !.st.hasB2Api = TRUE, !.cache = construct(@)], fault)

\* BackblazeB2Storage.b2Api: the first access creates the account info and the
\* B2Api and authorizes
b2Api(s, fault) ==
  IF s.st.hasB2Api THEN Ok(s, None)
  ELSE authorize_account([s EXCEPT !.st.hasB2Api = TRUE, !.cache = construct(@)], fault)

\* B2Api.get_bucket_by_name(self._bucketName)
get_bucket_by_name(s, fault) ==
  IF fault = "get_bucket_by_name"
  THEN Raised(Logged(s, "get_bucket_by_name", <<BucketName>>, "B2Error"), "B2Error")
  ELSE IF s.b2.bucket = <<>>
  THEN Raised(Logged(s, "get_bucket_by_name", <<BucketName>>, "NonExistentBucket"),
              "NonExistentBucket")
  ELSE Ok(Logged(s, "get_bucket_by_name", <<BucketName>>, None), s.b2.bucket[1])

\* B2Api.create_bucket(name=self._bucketName, **newBucketDetails)
create_bucket(s, details, fault) ==
  IF fault = "create_bucket"
  THEN Raised(Logged(s, "create_bucket", <<BucketName, details>>, "B2Error"), "B2Error")
  ELSE LET type == (CHOOSE p \in details : p[1] = "bucket_type")[2]
           made == [name |-> BucketName, type |-> type]
       IN  Ok([Logged(s, "create_bucket", <<BucketName, details>>, None)
                 EXCEPT !.b2.bucket = <<made>>], made)

\* "bucket_type" not in newBucketDetails => newBucketDetails["bucket_type"] = "allPrivate"
WithDefaultBucketType(details) ==
  IF \E p \in details : p[1] = "bucket_type" THEN details
  ELSE details \cup {<<"bucket_type", "allPrivate">>}

\* the except clause of _getOrCreateBucket, create being the condition under
\* which the bucket is created
orCreateBucket(g, create, details, fault) ==
  IF g.exc = None THEN Ok([g.s EXCEPT !.st.bucket = <<g.val>>], None)
  ELSE IF g.exc = "NonExistentBucket" /\ create
  THEN Then(create_bucket(g.s, WithDefaultBucketType(details), fault),
            LAMBDA c : Ok([c.s EXCEPT !.st.bucket = <<c.val>>], None))
  ELSE g

\* _getOrCreateBucket that creates a missing bucket whatever it was given
getOrCreateBucket_always_creates(s, newBucketDetails, fault) ==
  Then(b2Api(s, fault), LAMBDA a :
    Bind(get_bucket_by_name(a.s, fault), LAMBDA g :
      orCreateBucket(g, TRUE,
                     IF newBucketDetails = <<>> THEN {} ELSE newBucketDetails[1], fault)))

\* BackblazeB2Storage._getOrCreateBucket(newBucketDetails); <<>> is None
getOrCreateBucket(s, newBucketDetails, fault) ==
  Then(b2Api(s, fault), LAMBDA a :
    Bind(get_bucket_by_name(a.s, fault), LAMBDA g :
      orCreateBucket(g, newBucketDetails # <<>>,
                     IF newBucketDetails = <<>> THEN {} ELSE newBucketDetails[1], fault)))

\* BackblazeB2Storage.bucket: resolved on the first access, without
\* newBucketDetails
bucket(s, fault) ==
  IF s.st.bucket # <<>> THEN Ok(s, s.st.bucket[1])
  ELSE Then(getOrCreateBucket(s, <<>>, fault), LAMBDA r : Ok(r.s, r.s.st.bucket[1]))

\* BackblazeB2Storage.__init__ from line 71 on
init(s, fault) ==
  IF ~s.st.opts.authorizeOnInit THEN Ok(s, None)
  ELSE Then(b2Api(s, fault), LAMBDA a :
         IF ~s.st.opts.validateOnInit THEN a
         ELSE getOrCreateBucket(a.s, s.st.opts.nonExistentBucketDetails, fault))

\* the newest version stored under name: <<>> when there is none
LatestVersion(world, name) ==
  LET versions == world.files[name]
  IN  IF versions = <<>> THEN <<>> ELSE <<versions[Len(versions)]>>

\* Bucket.get_file_info_by_name(name).as_dict()
get_file_info_by_name(s, name, fault) ==
  IF fault = "get_file_info_by_name"
  THEN Raised(Logged(s, "get_file_info_by_name", <<name>>, "B2Error"), "B2Error")
  ELSE IF LatestVersion(s.b2, name) = <<>>
  THEN Raised(Logged(s, "get_file_info_by_name", <<name>>, "FileNotPresent"),
              "FileNotPresent")
  ELSE Ok(Logged(s, "get_file_info_by_name", <<name>>, None), LatestVersion(s.b2, name)[1])

\* the versions of file_name other than file_id
OtherVersions(world, file_id, file_name) ==
  LET keep(v) == v.fileId # file_id IN SelectSeq(world.files[file_name], keep)

\* B2Api.delete_file_version(file_id, file_name)
delete_file_version(s, file_id, file_name, fault) ==
  IF fault = "delete_file_version"
  THEN Raised(Logged(s, "delete_file_version", <<file_id, file_name>>, "B2Error"),
              "B2Error")
  ELSE IF OtherVersions(s.b2, file_id, file_name) = s.b2.files[file_name]
  THEN Raised(Logged(s, "delete_file_version", <<file_id, file_name>>, "FileNotPresent"),
              "FileNotPresent")
  ELSE Ok([Logged(s, "delete_file_version", <<file_id, file_name>>, None)
             EXCEPT !.b2.files[file_name] = OtherVersions(s.b2, file_id, file_name)], None)

\* Bucket.upload_bytes(data_bytes, file_name, file_infos): a new version
upload_bytes(s, data_bytes, file_name, fault) ==
  IF fault = "upload_bytes"
  THEN Raised(Logged(s, "upload_bytes", <<data_bytes, file_name>>, "B2Error"), "B2Error")
  ELSE Ok([Logged(s, "upload_bytes", <<data_bytes, file_name>>, None)
             EXCEPT !.b2.files[file_name] =
                      Append(@, [fileId |-> s.b2.nextId, size |-> Len(data_bytes),
                                  uploadTimestamp |-> s.b2.nextId]),
                    !.b2.nextId = @ + 1], None)

\* the exceptions an "except FileOrBucketNotFound" clause catches; whether
\* NonExistentBucket derives from FileOrBucketNotFound depends on the b2sdk
\* release in use
FileOrBucketNotFound(world) ==
  {"FileOrBucketNotFound", "FileNotPresent"} \cup
    (IF world.nonExistentBucketIsNotFound THEN {"NonExistentBucket"} ELSE {})

\* BackblazeB2Storage._cache: TRUE when the django cache of the account info
\* is used for file information
cacheOf(s, fault) ==
  IF s.st.opts.forbidFilePropertyCaching THEN Ok(s, FALSE)
  ELSE Then(b2Api(s, fault), LAMBDA a : Ok(a.s, TRUE))

\* the text _fileCacheKey hashes: "{bucket.name}__{name}"
fileCacheKeyOf(bucketName, name) == <<bucketName \o "__", name>>

\* BackblazeB2Storage._fileCacheKey
fileCacheKey(s, name, fault) ==
  Then(bucket(s, fault), LAMBDA b : Ok(b.s, fileCacheKeyOf(b.val.name, name)))

\* loadInfo of _fileInfo: self.bucket.get_file_info_by_name(name).as_dict()
loadInfo(s, name, fault) ==
  Then(bucket(s, fault), LAMBDA b : get_file_info_by_name(b.s, name, fault))

\* get_or_set that returns what loadInfo returns without storing it
get_or_set_never_stores(s, key, name, fault) ==
  IF key \in DOMAIN s.cache THEN Ok(s, s.cache[key])
  ELSE loadInfo(s, name, fault)

\* cache.get_or_set(key, default=loadInfo, timeout=60) of _fileInfo
get_or_set(s, key, name, fault) ==
  IF key \in DOMAIN s.cache THEN Ok(s, s.cache[key])
  ELSE Then(loadInfo(s, name, fault),
            LAMBDA g : Ok([g.s EXCEPT !.cache = cache_set(@, key, g.val)], g.val))

\* the try block of _fileInfo
fileInfo_try(s, name, fault) ==
  Then(cacheOf(s, fault), LAMBDA c :
    IF c.val
    THEN Then(fileCacheKey(c.s, name, fault),
              LAMBDA k : get_or_set(k.s, k.val, name, fault))
    ELSE loadInfo(c.s, name, fault))

\* _fileInfo that treats every exception as not found
fileInfo_catches_all(s, name, fault) ==
  Bind(fileInfo_try(s, name, fault), LAMBDA r :
    IF r.exc # None THEN Ok(r.s, <<>>) ELSE Ok(r.s, <<r.val>>))

\* BackblazeB2Storage._fileInfo: <<>> is None, <<d>> the dict d
fileInfo(s, name, fault) ==
  Bind(fileInfo_try(s, name, fault), LAMBDA r :
    IF r.exc \in FileOrBucketNotFound(s.b2) THEN Ok(r.s, <<>>)
    ELSE IF r.exc # None THEN r
    ELSE Ok(r.s, <<r.val>>))

\* self._cache.delete(self._fileCacheKey(name)) if self._cache
invalidate(s, name, fault) ==
  Then(cacheOf(s, fault), LAMBDA c :
    IF ~c.val THEN Ok(c.s, None)
    ELSE Then(fileCacheKey(c.s, name, fault),
              LAMBDA k : Ok([k.s EXCEPT !.cache = cache_delete(@, k.val)], None)))

\* delete that removes the cached file information before the remote delete
delete_invalidates_first(s, name, fault) ==
  Then(fileInfo(s, name, fault), LAMBDA f :
    IF f.val = <<>> THEN Ok(f.s, None)
    ELSE Then(invalidate(f.s, name, fault),
              LAMBDA c : delete_file_version(c.s, f.val[1].fileId, name, fault)))

\* delete that raises when the file information is not found
delete_raises_when_absent(s, name, fault) ==
  Then(fileInfo(s, name, fault), LAMBDA f :
    IF f.val = <<>> THEN Raised(f.s, "FileNotPresent")
    ELSE Then(delete_file_version(f.s, f.val[1].fileId, name, fault),
              LAMBDA d : invalidate(d.s, name, fault)))

\* BackblazeB2Storage.delete
delete(s, name, fault) ==
  Then(fileInfo(s, name, fault), LAMBDA f :
    IF f.val = <<>> THEN Ok(f.s, None)
    ELSE Then(delete_file_version(f.s, f.val[1].fileId, name, fault),
              LAMBDA d : invalidate(d.s, name, fault)))

\* BackblazeB2Storage.exists: bool(self._fileInfo(name))
exists(s, name, fault) ==
  Then(fileInfo(s, name, fault), LAMBDA f : Ok(f.s, f.val # <<>>))

\* BackblazeB2Storage.size
size(s, name, fault) ==
  Then(fileInfo(s, name, fault),
       LAMBDA f : Ok(f.s, IF f.val # <<>> THEN f.val[1].size ELSE 0))

\* BackblazeB2Storage.get_created_time: the datetime of the upload
\* timestamp, which B2 gives in milliseconds
get_created_time(s, name, fault) ==
  Then(fileInfo(s, name, fault), LAMBDA f :
    IF f.val # <<>> /\ f.val[1].uploadTimestamp > 0
    THEN Ok(f.s, <<"datetime-of-ms", f.val[1].uploadTimestamp>>)
    ELSE Raised(f.s, "B2FileInformationNotAvailableException"))

\* BackblazeB2Storage._open: the B2File is created over self.bucket
open(s, name, fault) ==
  Then(bucket(s, fault), LAMBDA b : Ok(b.s, name))

\* BackblazeB2Storage._save: B2File(...).saveAndRetrieveFile(content)
save(s, name, content, fault) ==
  Then(bucket(s, fault), LAMBDA b :
    Then(upload_bytes(b.s, content, name, fault), LAMBDA u : Ok(u.s, name)))

\* BackblazeB2Storage.url -> getBackblazeUrl: the download url is computed by
\* the B2Api without a remote call
url(s, name, fault) ==
  IF name = "" THEN Raised(s, "Exception")
  ELSE Then(b2Api(s, fault), LAMBDA a : Ok(a.s, <<"download-url", BucketName, name>>))

\* the cached file information, by file name
FileInfoEntries(c) ==
  [n \in {m \in FileNames : fileCacheKeyOf(BucketName, m) \in DOMAIN c} |->
     c[fileCacheKeyOf(BucketName, n)]]

\* --- actions ---------------------------------------------------------------
\* the state after one call on the storage object: the machine and the
\* outcome of r
Finished(r, st, op, arg) ==
  /\ storage' = st
  /\ b2' = r.s.b2
  /\ cache' = r.s.cache
  /\ apiCalls' = r.s.calls
  /\ sret' = [op |-> op, arg |-> arg, exc |-> r.exc, val |-> r.val]
  /\ UNCHANGED varsFile
  /\ UNCHANGED <<ret, lastSet, authState, settings, inst>>
  /\ UNCHANGED varsOther

\* BackblazeB2Storage(...): a constructor that raises leaves no object
StorageInit ==
  /\ ~storage.constructed
  /\ \E fault \in Faults :
       \E r \in {init(Machine, fault)} :
         Finished(r, IF r.exc = None THEN [r.s.st EXCEPT !.constructed = TRUE]
                     ELSE NewStorage(storage.opts),
                  "__init__", <<>>)

\* a call on the constructed object
Callable == storage.constructed

\* storage.bucket
Bucket ==
  /\ Callable
  /\ \E fault \in Faults :
       \E r \in {bucket(Machine, fault)} : Finished(r, r.s.st, "bucket", <<>>)

Open ==
  /\ Callable
  /\ \E name \in FileNames, fault \in Faults :
       \E r \in {open(Machine, name, fault)} : Finished(r, r.s.st, "open", <<name>>)

Save ==
  /\ Callable
  /\ b2.nextId <= MaxVersions
  /\ \E name \in FileNames, content \in SavedContents, fault \in Faults :
       \E r \in {save(Machine, name, content, fault)} :
         Finished(r, r.s.st, "save", <<name, content>>)

Delete ==
  /\ Callable
  /\ \E name \in FileNames, fault \in Faults :
       \E r \in {delete(Machine, name, fault)} : Finished(r, r.s.st, "delete", <<name>>)

Exists ==
  /\ Callable
  /\ \E name \in FileNames, fault \in Faults :
       \E r \in {exists(Machine, name, fault)} : Finished(r, r.s.st, "exists", <<name>>)

Size ==
  /\ Callable
  /\ \E name \in FileNames, fault \in Faults :
       \E r \in {size(Machine, name, fault)} : Finished(r, r.s.st, "size", <<name>>)

GetCreatedTime ==
  /\ Callable
  /\ \E name \in FileNames, fault \in Faults :
       \E r \in {get_created_time(Machine, name, fault)} :
         Finished(r, r.s.st, "get_created_time", <<name>>)

\* the timeout of a cached file information passes: the django cache drops
\* the entry
Expire ==
  /\ \E name \in DOMAIN FileInfoEntries(cache) :
       cache' = cache_delete(cache, fileCacheKeyOf(BucketName, name))
  /\ apiCalls' = <<>>
  /\ sret' = [op |-> "expire", arg |-> <<>>, exc |-> None, val |-> None]
  /\ UNCHANGED <<storage, b2, settings, inst>>
  /\ UNCHANGED varsFile
  /\ UNCHANGED <<ret, lastSet, authState>>
  /\ UNCHANGED varsOther

Url ==
  /\ Callable
  /\ \E name \in FileNames \cup {""}, fault \in Faults :
       \E r \in {url(Machine, name, fault)} : Finished(r, r.s.st, "url", <<name>>)

\* the bucket the service holds, once configured or created
PrivateBucket == [name |-> BucketName, type |-> "allPrivate"]

\* the service before the storage object exists: the bucket is there or not;
\* a bucket that is there holds, under each name, at most one version
Worlds ==
  {[bucket |-> <<>>, files |-> [n \in FileNames |-> <<>>], nextId |-> 1,
    nonExistentBucketIsNotFound |-> h] : h \in BOOLEAN}
  \cup
  {[bucket |-> <<PrivateBucket>>, files |-> f, nextId |-> 2,
    nonExistentBucketIsNotFound |-> h] :
     f \in [FileNames -> {<<>>, <<[fileId |-> 1, size |-> 1, uploadTimestamp |-> 1]>>}],
     h \in BOOLEAN}

NoCall == [op |-> "none", arg |-> <<>>, exc |-> None, val |-> None]

\* ---------------------------------------------------------------------------
\* The options of a storage object (options.py, storage.py __init__)
\* ---------------------------------------------------------------------------
\* an options dict is a function from its keys; the value of accountInfo,
\* specificBucketNames and defaultFileInfo is itself a dict, every other value
\* is a string ("True" and "False" for the flags)
MaxKeys == 1

DictKeys == {"accountInfo", "specificBucketNames", "defaultFileInfo"}

CredentialKeys == {"application_key_id", "application_key"}

EmptyDict == [k \in {} |-> None]

\* options.getDefaultB2StorageOptions
getDefaultB2StorageOptions ==
  [realm |-> "production",
   application_key_id |-> "you must set this value yourself",
   application_key |-> "you must set this value yourself",
   bucket |-> "django",
   authorizeOnInit |-> "True",
   validateOnInit |-> "True",
   allowFileOverwrites |-> "False",
   accountInfo |-> [type |-> "django-cache", cache |-> "django-backblaze-b2"],
   forbidFilePropertyCaching |-> "False",
   specificBucketNames |-> [public |-> None, loggedIn |-> None, staff |-> None],
   cdnConfig |-> None,
   nonExistentBucketDetails |-> None,
   defaultFileInfo |-> EmptyDict]

\* the order in which a dict is iterated: the order of its keys in this list
KeyOrder ==
  <<"application_key_id", "application_key", "bucket", "authorizeOnInit",
    "accountInfo", "specificBucketNames", "defaultFileInfo", "unrecognized",
    "type", "cache", "public", "loggedIn", "staff", "owner", "tag">>

KeysOf(d) == LET in(k) == k \in DOMAIN d IN SelectSeq(KeyOrder, in)

\* dict.update(source): the values of source replace those of target whole
update(target, source) == source @@ target

\* isinstance(target[key], dict) and isinstance(source[key], dict)
BothDicts(path, key) == path = <<>> /\ key \in DictKeys

\* ".".join(path + [str(key)])
printablePath(path, key) == IF path = <<>> THEN key ELSE path[1] \o "." \o key

\* the loop of _merge over the keys of source still to visit
RECURSIVE merge_from(_, _, _, _, _)
merge_from(target, source, path, keys, log) ==
  IF keys = <<>> THEN [target |-> target, log |-> log]
  ELSE LET key == Head(keys)
       IN  IF key \notin DOMAIN target
           THEN merge_from((key :> source[key]) @@ target, source, path, Tail(keys), log)
           ELSE IF BothDicts(path, key)
           THEN LET inner == merge_from(target[key], source[key], <<key>>,
                                        KeysOf(source[key]), log)
                IN  merge_from([target EXCEPT ![key] = inner.target], source, path,
                               Tail(keys), inner.log)
           ELSE IF target[key] # source[key]
           THEN merge_from([target EXCEPT ![key] = source[key]], source, path, Tail(keys),
                           Append(log, <<"Overriding setting", printablePath(path, key),
                                         "with value", source[key]>>))
           ELSE merge_from(target, source, path, Tail(keys), log)

\* _merge that replaces a nested dict whole
merge_shallow(target, source) ==
  [target |-> update(target, source), log |-> <<>>]

\* storage._merge(target, source)
merge(target, source) == merge_from(target, source, <<>>, KeysOf(source), <<>>)

\* the outcome of a step of the option resolution
Resolved(opts, log) == [exc |-> None, msg |-> <<>>, opts |-> opts, log |-> log]

ImproperlyConfigured(msg) ==
  [exc |-> "ImproperlyConfigured", msg |-> msg, opts |-> EmptyDict, log |-> <<>>]

\* _validateOptions that accepts every key
validateOptions_accepts_all(options) == Resolved(options, <<>>)

\* BackblazeB2Storage._validateOptions
validateOptions(options) ==
  LET unknown(k) == k \notin DOMAIN getDefaultB2StorageOptions
      unrecognizedOptions == SelectSeq(KeysOf(options), unknown)
  IN  IF unrecognizedOptions # <<>>
      THEN ImproperlyConfigured(<<"Unrecognized options:", unrecognizedOptions>>)
      ELSE Resolved(options, <<>>)

\* BackblazeB2Storage._getDjangoSettingsOptions; config is <<>> when the
\* settings have no BACKBLAZE_CONFIG
getDjangoSettingsOptions(config) ==
  IF config = <<>>
  THEN ImproperlyConfigured(<<"add BACKBLAZE_CONFIG dict to django settings">>)
  ELSE IF ~(CredentialKeys \subseteq DOMAIN config[1])
  THEN ImproperlyConfigured(<<"At minimum BACKBLAZE_CONFIG must contain auth", "found:",
                              config[1]>>)
  ELSE IF validateOptions(config[1]).exc # None THEN validateOptions(config[1])
  ELSE Resolved(update(getDefaultB2StorageOptions, config[1]), <<>>)

\* logOpts of __init__
logOpts(opts) ==
  update(opts, [application_key_id |-> "<redacted>", application_key |-> "<redacted>"])

\* BackblazeB2Storage._createAccountInfoCallable: the checks of accountInfo
createAccountInfoCallable(r) ==
  IF \/ "type" \notin DOMAIN r.opts.accountInfo
     \/ r.opts.accountInfo.type \notin {"memory", "sqlite", "django-cache"}
  THEN [ImproperlyConfigured(<<"accountInfo property must be a dict with type found in options.py, was",
                               r.opts.accountInfo>>) EXCEPT !.log = r.log]
  ELSE r

\* ---------------------------------------------------------------------------
\* The storage classes (storages.py) and the construction of an instance
\* ---------------------------------------------------------------------------
Base == "BackblazeB2Storage"

Classes == {Base, "PublicStorage", "LoggedInStorage", "StaffStorage"}

\* the methods the body of each class defines, of those looked up below
Defines(cls) ==
  CASE cls = Base ->
         {"__init__", "_getDjangoSettingsOptions", "_validateOptions", "_refreshBucket",
          "url", "_getFileUrl", "getBackblazeUrl"}
    [] cls = "PublicStorage" ->
         {"__init__", "_is_public_bucket", "_get_file_url", "_get_django_settings_options"}
    [] OTHER -> {"_get_file_url", "_get_django_settings_options"}

\* the class whose definition runs when name is looked up on an instance of
\* cls: the class itself, else the base class, else the lookup fails
Owner(cls, name) ==
  IF name \in Defines(cls) THEN cls
  ELSE IF name \in Defines(Base) THEN Base
  ELSE "AttributeError"

\* storages._validate_kwarg_opts
validate_kwarg_opts(kwarg_opts) ==
  IF "bucket" \in DOMAIN kwarg_opts
  THEN ImproperlyConfigured(<<"May not specify 'bucket' in proxied storage class">>)
  ELSE IF {"application_key_id", "application_key", "realm"} \cap DOMAIN kwarg_opts # {}
  THEN ImproperlyConfigured(<<"May not specify auth credentials in proxied storage class">>)
  ELSE Resolved(kwarg_opts, <<>>)

\* _get_django_settings_options of the three classes of storages.py: the
\* checks of the explicit options, then the method of that name of the base
\* class
get_django_settings_options(cls, config, kwarg_opts) ==
  IF validate_kwarg_opts(kwarg_opts).exc # None THEN validate_kwarg_opts(kwarg_opts)
  ELSE IF Owner(Base, "_get_django_settings_options") = "AttributeError"
  THEN [exc |-> "AttributeError", msg |-> <<"_get_django_settings_options">>,
        opts |-> EmptyDict, log |-> <<>>]
  ELSE getDjangoSettingsOptions(config)

\* self._getDjangoSettingsOptions(kwargs.get("opts", {})) on an instance of cls
getDjangoSettingsOptionsOf(cls, config, kwargOpts) ==
  IF Owner(cls, "_getDjangoSettingsOptions") = Base
  THEN getDjangoSettingsOptions(config)
  ELSE get_django_settings_options(cls, config, kwargOpts)

\* the keyword arguments of a constructor call: opts is <<>> without an opts
\* argument and <<d>> with opts=d; named holds the other keyword arguments
Kwargs(opts, named) == [opts |-> opts, named |-> named]

\* kwargs.get("opts", {})
ExplicitOf(kwargs) == IF kwargs.opts = <<>> THEN EmptyDict ELSE kwargs.opts[1]

\* lines 56 to 70 of __init__ after the merge m: the two log lines around the
\* checks of accountInfo
afterMerge(cls, m) ==
  LET a == createAccountInfoCallable(
             Resolved(m.target, Append(m.log, <<"Initializing", cls, "with options",
                                                logOpts(m.target)>>)))
  IN  IF a.exc # None THEN [a EXCEPT !.opts = m.target]
      ELSE Resolved(m.target,
                    Append(a.log, <<cls, "instantiated to use bucket", m.target.bucket>>))

\* BackblazeB2Storage.__init__, lines 52 to 70, on an instance of cls
resolveOptions(cls, config, kwargs) ==
  LET g == getDjangoSettingsOptionsOf(cls, config, ExplicitOf(kwargs))
  IN  IF g.exc # None THEN g
      ELSE IF kwargs.opts # <<>> /\ validateOptions(kwargs.opts[1]).exc # None
      THEN validateOptions(kwargs.opts[1])
      ELSE afterMerge(cls, merge(g.opts, ExplicitOf(kwargs)))

\* BACKBLAZE_CONFIG after the construction: opts.update puts the nested dicts
\* of the settings themselves into opts, and _merge merges the explicit
\* options into them
configAfter(config, kwargs, r) ==
  IF config = <<>> \/ DOMAIN r.opts = {} THEN config
  ELSE <<[k \in DOMAIN config[1] |->
            IF k \in DictKeys /\ k \in DOMAIN ExplicitOf(kwargs) THEN r.opts[k]
            ELSE config[1][k]]>>

\* the options __init__ reads from line 71 on
storageOptions(opts) ==
  [authorizeOnInit |-> opts.authorizeOnInit = "True",
   validateOnInit |-> opts.validateOnInit = "True",
   forbidFilePropertyCaching |-> opts.forbidFilePropertyCaching = "True",
   nonExistentBucketDetails |-> <<>>]

\* --- the visibility of the bucket (PublicStorage) --------------------------
\* what Bucket.as_dict() answers for bucketType: the answers of its first
\* calls, and the answer of every call after them; None is an answer without
\* bucketType
Scripts ==
  {[first |-> <<>>, then |-> t] : t \in {"allPublic", "allPrivate", None}}
  \cup {[first |-> <<None, None>>, then |-> "allPublic"]}

Answer(script, k) == IF k <= Len(script.first) THEN script.first[k] ELSE script.then

\* the as_dict calls of line 150 of _getOrCreateBucket among the calls of log:
\* one after each get_bucket_by_name or create_bucket that returned
ConnectedReads(log) ==
  Cardinality({i \in 1..Len(log) :
                 log[i].call \in {"get_bucket_by_name", "create_bucket"} /\ log[i].exc = None})

\* the as_dict calls made on the bucket of the instance up to now
ReadsSoFar(s) == s.tier.reads + ConnectedReads(s.calls)

\* self.bucket.as_dict().get("bucketType")
as_dict(s) ==
  Ok([s EXCEPT !.tier.reads = @ + 1], Answer(s.tier.script, ReadsSoFar(s) + 1))

\* self._refresh_bucket() on an instance of cls
refresh_bucket(cls, s) ==
  IF Owner(cls, "_refresh_bucket") = "AttributeError" THEN Raised(s, "AttributeError")
  ELSE Ok([s EXCEPT !.tier.refreshes = @ + 1], None)

\* PublicStorage._is_public_bucket
is_public_bucket(cls, s, fault) ==
  IF s.tier.bucket_type # None THEN Ok(s, s.tier.bucket_type = "allPublic")
  ELSE Then(bucket(s, fault), LAMBDA b :
         Then(as_dict(b.s), LAMBDA d :
           IF d.val # None
           THEN Ok([d.s EXCEPT !.tier.bucket_type = d.val], d.val = "allPublic")
           ELSE Then(refresh_bucket(cls, d.s), LAMBDA f :
                  Then(as_dict(f.s), LAMBDA e :
                    Ok([e.s EXCEPT !.tier.bucket_type = e.val], e.val = "allPublic")))))

\* urls.py: the path of each route
RoutePath == [public |-> "/b2/", logged_in |-> "/b2l/", staff |-> "/b2s/"]

\* django.urls.reverse("django_b2_storage:<route>", args=[name])
reverse(route, name) == <<RoutePath[route], name>>

\* self.get_backblaze_url(name) on an instance of cls
get_backblaze_url(cls, s, name, fault) ==
  IF Owner(cls, "get_backblaze_url") = "AttributeError" THEN Raised(s, "AttributeError")
  ELSE url(s, name, fault)

\* _get_file_url of the three classes of storages.py
get_file_url(cls, s, name, fault) ==
  CASE cls = "LoggedInStorage" -> Ok(s, reverse("logged_in", name))
    [] cls = "StaffStorage" -> Ok(s, reverse("staff", name))
    [] OTHER ->
         Then(is_public_bucket(cls, s, fault), LAMBDA p :
           IF ~p.val THEN Ok(p.s, reverse("public", name))
           ELSE get_backblaze_url(cls, p.s, name, fault))

\* url that asks for the visibility until it gets a definite answer
urlOf_probing(cls, s, name, fault) ==
  IF cls # "PublicStorage" THEN url(s, name, fault)
  ELSE Then(bucket(s, fault), LAMBDA b :
         Then(as_dict(b.s), LAMBDA d1 :
           Then(as_dict(d1.s), LAMBDA d2 :
             Then(as_dict(d2.s), LAMBDA d3 : url(d3.s, name, fault)))))

\* BackblazeB2Storage.url on an instance of cls: self._getFileUrl(name) is
\* looked up on the instance
urlOf(cls, s, name, fault) ==
  IF Owner(cls, "_getFileUrl") = Base THEN url(s, name, fault)
  ELSE IF name = "" THEN Raised(s, "Exception")
  ELSE get_file_url(cls, s, name, fault)

\* --- actions ---------------------------------------------------------------
\* the instance __init__ ran on last, with what the option resolution r made
\* of the keyword arguments
Instance(cls, kwargs, config, r, script) ==
  [cls |-> cls, kwargs |-> kwargs, config |-> config, opts |-> r.opts, log |-> r.log,
   exc |-> r.exc, msg |-> r.msg, bucket_type |-> None, script |-> script,
   reads |-> 0, refreshes |-> 0]

NoKwargs == Kwargs(<<>>, EmptyDict)

NoInstance ==
  Instance(Base, NoKwargs, <<>>, Resolved(EmptyDict, <<>>), [first |-> <<>>, then |-> None])

\* the machine a call on the instance tier runs on
TierMachine(st, tier) ==
  [st |-> st, b2 |-> b2, cache |-> cache, calls |-> <<>>, tier |-> tier]

\* the state after one call on the instance
TierFinished(r, st, op, arg) ==
  /\ storage' = st
  /\ b2' = r.s.b2
  /\ cache' = r.s.cache
  /\ apiCalls' = r.s.calls
  /\ sret' = [op |-> op, arg |-> arg, exc |-> r.exc, val |-> r.val]
  /\ inst' = [r.s.tier EXCEPT !.reads = ReadsSoFar(r.s)]
  /\ UNCHANGED varsFile
  /\ UNCHANGED <<ret, lastSet, authState>>
  /\ UNCHANGED varsOther

\* cls(**kwargs), the first call of the process, with kwargs among allKwargs:
\* the options are resolved, and with them __init__ goes on from line 71; a
\* constructor that raises leaves no object
ConstructOf(allKwargs, scripts) ==
  /\ ~storage.constructed
  /\ sret = NoCall
  /\ \E cls \in Classes, kwargs \in allKwargs, script \in scripts, fault \in Faults :
       \E o \in {resolveOptions(cls, settings, kwargs)} :
         /\ settings' = configAfter(settings, kwargs, o)
         /\ IF o.exc # None
            THEN TierFinished(Raised(TierMachine(storage,
                                                 Instance(cls, kwargs, settings, o, script)),
                                     o.exc),
                              storage, "__init__", <<>>)
            ELSE \E r \in {init(TierMachine(NewStorage(storageOptions(o.opts)),
                                            Instance(cls, kwargs, settings, o, script)),
                                fault)} :
                   TierFinished(r, IF r.exc = None THEN [r.s.st EXCEPT !.constructed = TRUE]
                                   ELSE NewStorage(storage.opts),
                                "__init__", <<>>)

\* instance.url(name)
TierUrl ==
  /\ storage.constructed
  /\ UNCHANGED settings
  /\ \E name \in FileNames \cup {""}, fault \in Faults :
       \E r \in {urlOf(inst.cls, TierMachine(storage, inst), name, fault)} :
         TierFinished(r, r.s.st, "url", <<name>>)

\* --- the inputs ------------------------------------------------------------
Ids == {"id-1", "id-2"}

Keys == {"key-1", "key-2"}

\* the values the settings or the explicit options give to a key
Mentions(key) ==
  CASE key = "application_key_id" -> Ids
    [] key = "application_key" -> Keys
    [] key = "bucket" -> {"cool-bucket", "uncool-bucket"}
    [] key = "authorizeOnInit" -> {"False"}
    [] key = "accountInfo" -> {[cache |-> "my-cache"]}
    [] key = "specificBucketNames" -> {[staff |-> "staff-bucket"]}
    [] key = "defaultFileInfo" -> {[owner |-> "me"], [owner |-> "you"], [tag |-> "x"]}
    [] key = "unrecognized" -> {"option"}

MentionedKeys ==
  {"application_key_id", "application_key", "bucket", "authorizeOnInit", "accountInfo",
   "specificBucketNames", "defaultFileInfo", "unrecognized"}

\* the dicts that mention at most n of the keys
RECURSIVE Layers(_)
Layers(n) ==
  IF n = 0 THEN {EmptyDict}
  ELSE Layers(n - 1) \cup
       UNION {UNION {{(k :> v) @@ d : v \in Mentions(k)} : k \in MentionedKeys \ DOMAIN d} :
                d \in Layers(n - 1)}

\* the keyword arguments: none, opts=d, or the keys of d as keyword arguments
AllKwargs ==
  {Kwargs(<<>>, d) : d \in Layers(MaxKeys)} \cup {Kwargs(<<d>>, EmptyDict) : d \in Layers(MaxKeys)}

SomeCredentials == [application_key_id |-> "id-1", application_key |-> "key-1"]

\* BACKBLAZE_CONFIG: missing, or with both credentials, one or none, and at
\* most MaxKeys other keys
AllSettings ==
  {<<>>} \cup
  {<<c @@ d>> : c \in {EmptyDict, [application_key |-> "key-1"], SomeCredentials},
                d \in {l \in Layers(MaxKeys) : DOMAIN l \cap CredentialKeys = {}}}

OptionsConstruct == ConstructOf(AllKwargs, {[first |-> <<>>, then |-> "allPrivate"]})

TierConstruct == ConstructOf({NoKwargs}, Scripts)

\* no instance is in use and the settings have no BACKBLAZE_CONFIG
InitOptionVars ==
  /\ settings = <<>>
  /\ inst = NoInstance

\* no storage object is in use
InitStorageVars ==
  /\ InitOptionVars
  /\ storage = NewStorage([authorizeOnInit |-> TRUE, validateOnInit |-> TRUE,
                           forbidFilePropertyCaching |-> FALSE,
                           nonExistentBucketDetails |-> <<>>])
  /\ b2 = [bucket |-> <<>>, files |-> [n \in FileNames |-> <<>>], nextId |-> 1,
           nonExistentBucketIsNotFound |-> TRUE]
  /\ apiCalls = <<>>
  /\ sret = NoCall

\* a store constructed over an empty cache
InitCacheVars ==
  /\ cache = construct(EmptyCache)
  /\ ret = Outcome("__init__", <<>>, None, None, {})
  /\ lastSet = AuthArgsA
  /\ authState = "unset"

\* ===========================================================================
\* FileMetaShim  (src/django_backblaze_b2/b2_filemeta_shim.py)
\* ===========================================================================
\* head_attempts of as_dict
HeadAttempts == 4

\* the status codes the service answers a HEAD request with
Statuses == {"200", "401", "404"}

\* the statuses of the HEAD requests of one call, in the order of the requests
HeadScripts == [1..HeadAttempts -> Statuses]

\* the HTTPError response.raise_for_status() raises for a status
HTTPError(status) == "HTTPError " \o status

HTTPErrors == {HTTPError(status) : status \in Statuses \ {"200"}}

\* what a FileMetaShim call can fail with besides the status of the HEAD
ShimFaults == {None, "get_download_authorization", "authorize_automatically"}

\* FileMetaShim.__init__: no _meta attribute
NoShim == [meta |-> <<>>]

\* the machine a call on the FileMetaShim runs on
ShimMachine == [meta |-> shim.meta, calls |-> <<>>]

\* FileMetaShim._get_head_response: the download authorization, then the HEAD
\* request, whose status raise_for_status turns into an HTTPError
get_head_response(s, status, fault) ==
  IF fault = "get_download_authorization"
  THEN Raised(Logged(s, "get_download_authorization", <<"some/file.txt">>, "B2Error"),
              "B2Error")
  ELSE Bind(Logged(s, "get_download_authorization", <<"some/file.txt">>, None), LAMBDA a :
         IF status = "200"
         THEN Ok(Logged(a, "head", <<"some/file.txt">>, None), <<"headers", "some/file.txt">>)
         ELSE Raised(Logged(a, "head", <<"some/file.txt">>, HTTPError(status)),
                     HTTPError(status)))

\* B2Api.authorize_automatically(): False when the account info holds no
\* credentials, else authorize_account with them
authorize_automatically(s, authorizes, fault) ==
  IF fault = "authorize_automatically"
  THEN Raised(Logged(s, "authorize_automatically", <<>>, "B2Error"), "B2Error")
  ELSE Ok(Logged(s, "authorize_automatically", <<>>, None), authorizes)

\* the loop of as_dict from attempt on, and the request after the loop
RECURSIVE head_attempts_from(_, _, _, _, _)
\* the loop that goes on to the next attempt without authorizing
head_attempts_without_authorize(s, attempt, script, authorizes, fault) ==
  IF attempt >= HeadAttempts
  THEN Then(get_head_response(s, "200", fault),
            LAMBDA h : Ok([h.s EXCEPT !.meta = <<h.val>>], h.val))
  ELSE Bind(get_head_response(s, script[attempt + 1], fault), LAMBDA h :
         IF h.exc = None THEN Ok([h.s EXCEPT !.meta = <<h.val>>], h.val)
         ELSE IF h.exc \notin HTTPErrors THEN h
         ELSE IF attempt = 3 \/ h.exc = HTTPError("404") THEN h
         ELSE head_attempts_from(h.s, attempt + 1, script, authorizes, fault))

head_attempts_from(s, attempt, script, authorizes, fault) ==
  IF attempt >= HeadAttempts
  THEN Then(get_head_response(s, "200", fault),
            LAMBDA h : Ok([h.s EXCEPT !.meta = <<h.val>>], h.val))
  ELSE Bind(get_head_response(s, script[attempt + 1], fault), LAMBDA h :
         IF h.exc = None THEN Ok([h.s EXCEPT !.meta = <<h.val>>], h.val)
         ELSE IF h.exc \notin HTTPErrors THEN h
         ELSE IF attempt = 3 \/ h.exc = HTTPError("404") THEN h
         ELSE Bind(authorize_automatically(h.s, authorizes, fault), LAMBDA z :
                IF z.exc # None THEN z
                ELSE IF ~z.val THEN Raised(z.s, h.exc)
                ELSE head_attempts_from(z.s, attempt + 1, script, authorizes, fault)))

\* FileMetaShim.as_dict
FileMetaShim_as_dict(s, script, authorizes, fault) ==
  IF s.meta # <<>> THEN Ok(s, s.meta[1])
  ELSE head_attempts_from(s, 0, script, authorizes, fault)

\* FileMetaShim.exists; interpretable: the body of the response is the JSON
\* of a B2 error
FileMetaShim_exists(s, script, authorizes, fault, interpretable) ==
  Bind(FileMetaShim_as_dict(s, script, authorizes, fault), LAMBDA d :
    IF d.exc = None THEN Ok(d.s, TRUE)
    ELSE IF d.exc \notin HTTPErrors THEN d
    ELSE IF d.exc = HTTPError("404") THEN Ok(d.s, FALSE)
    ELSE IF interpretable THEN Raised(d.s, "B2Error")
    ELSE Raised(d.s, "Exception"))

\* --- actions ---------------------------------------------------------------
\* the state after one call on the FileMetaShim
ShimFinished(r, op) ==
  /\ shim' = [meta |-> r.s.meta]
  /\ apiCalls' = r.s.calls
  /\ sret' = [op |-> op, arg |-> <<"some/file.txt">>, exc |-> r.exc, val |-> r.val]
  /\ UNCHANGED <<storage, b2, cache, settings, inst, workers>>
  /\ UNCHANGED varsFile
  /\ UNCHANGED <<ret, lastSet, authState>>

\* FileMetaShim(b2Api, bucketInstance, filename)
ShimNew ==
  /\ shim # NoShim
  /\ ShimFinished(Ok([meta |-> <<>>, calls |-> <<>>], None), "FileMetaShim")

ShimAsDict ==
  \E script \in HeadScripts, authorizes \in BOOLEAN, fault \in ShimFaults :
    \E r \in {FileMetaShim_as_dict(ShimMachine, script, authorizes, fault)} :
      ShimFinished(r, "FileMetaShim.as_dict")

ShimExists ==
  \E script \in HeadScripts, authorizes \in BOOLEAN, fault \in ShimFaults,
     interpretable \in BOOLEAN :
    \E r \in {FileMetaShim_exists(ShimMachine, script, authorizes, fault, interpretable)} :
      ShimFinished(r, "FileMetaShim.exists")


\* ===========================================================================
\* Stores sharing one django cache  (cache_account_info.py), one cache
\* operation at a time
\* ===========================================================================
\* the DjangoCacheAccountInfo objects over the cache
Stores == {1, 2}

\* the buckets the stores save
SavedBuckets == {<<"some-name", "some-id">>, <<"other-name", "other-id">>}

\* a store that is in no call: pc is the cache operation the call makes next,
\* 0 when the call has returned; names is the "bucket_names" list it has read
Idle ==
  [op |-> "none", pc |-> 0, bucket |-> <<None, None>>, auth |-> AuthArgsA, names |-> <<>>]

\* the next cache operation of save_bucket: the set of the name-to-id entry,
\* the get of "bucket_names", the set of "bucket_names"
save_bucket_step(c, w) ==
  CASE w.pc = 1 ->
         [cache |-> cache_set(c, bucket_cachekey(w.bucket[1]), w.bucket[2]),
          w |-> [w EXCEPT !.pc = 2]]
    [] w.pc = 2 ->
         [cache |-> c,
          w |-> [w EXCEPT !.pc = 3, !.names = cache_get(c, KeyBucketNames, <<>>)]]
    [] OTHER ->
         [cache |-> cache_set(c, KeyBucketNames, Append(w.names, w.bucket[1])),
          w |-> [w EXCEPT !.pc = 0, !.names = <<>>]]

\* _set_auth_data that sets the session in two cache operations: the token
\* and the urls first, over what is stored, then the whole dict
set_auth_data_in_two_steps(c, w) ==
  IF w.pc = 1
  THEN [cache |-> cache_set(c, KeyAccountInfo,
                            [f \in Fields |->
                               IF f \in {"auth_token", "api_url", "download_url"}
                               THEN w.auth[f]
                               ELSE dict_get(cached_info(c), f)]),
        w |-> [w EXCEPT !.pc = 2]]
  ELSE [cache |-> cache_set(c, KeyAccountInfo, set_auth_data(w.auth)),
        w |-> [w EXCEPT !.pc = 0]]

\* the cache operation of _set_auth_data: one set of the whole dict
set_auth_data_step(c, w) ==
  [cache |-> cache_set(c, KeyAccountInfo, set_auth_data(w.auth)),
   w |-> [w EXCEPT !.pc = 0]]

\* --- actions ---------------------------------------------------------------
\* the state after a step of store p
Stepped(p, r) ==
  /\ cache' = r.cache
  /\ workers' = [workers EXCEPT ![p] = r.w]
  /\ UNCHANGED varsFile
  /\ UNCHANGED varsStorage
  /\ UNCHANGED <<ret, lastSet, authState, shim>>

\* store p is called: save_bucket(bucket)
CallSaveBucket ==
  \E p \in Stores, saved \in SavedBuckets :
    /\ workers[p].pc = 0
    /\ Len(cache_get(cache, KeyBucketNames, <<>>)) < MaxNames
    /\ Stepped(p, [cache |-> cache,
                   w |-> [Idle EXCEPT !.op = "save_bucket", !.pc = 1, !.bucket = saved]])

\* store p is called: _set_auth_data(**auth)
CallSetAuthData ==
  \E p \in Stores, auth \in {AuthArgsA, AuthArgsB} :
    /\ workers[p].pc = 0
    /\ Stepped(p, [cache |-> cache,
                   w |-> [Idle EXCEPT !.op = "_set_auth_data", !.pc = 1, !.auth = auth]])

\* store p makes the next cache operation of its save_bucket
StepSaveBucket ==
  \E p \in Stores :
    /\ workers[p].op = "save_bucket"
    /\ workers[p].pc > 0
    /\ Stepped(p, save_bucket_step(cache, workers[p]))

\* store p makes the next cache operation of its _set_auth_data
StepSetAuthData ==
  \E p \in Stores :
    /\ workers[p].op = "_set_auth_data"
    /\ workers[p].pc > 0
    /\ Stepped(p, set_auth_data_step(cache, workers[p]))

\* no FileMetaShim has fetched anything, no store is in a call
InitOtherVars ==
  /\ shim = NoShim
  /\ workers = [p \in Stores |-> Idle]

InitFileVars ==
  /\ hasUnwrittenData = FALSE
  /\ contents = <<>>
  /\ calls = <<>>
  /\ fret = NoResult
  /\ hist = <<>>

\* the session operations of one store
InitSession ==
  /\ InitCacheVars
  /\ InitFileVars
  /\ InitOtherVars
  /\ InitStorageVars
  /\ mode = <<"r">>
  /\ remote = <<>>

NextSession ==
  \/ Construct
  \/ Clear
  \/ SetAuthData
  \/ Get
  \/ GetS3ApiUrl

SpecSession == InitSession /\ [][NextSession]_vars

\* the bucket index operations of one store; no session is ever stored, so
\* every getter of Get raises and clears the cache
InitIndex ==
  /\ InitCacheVars
  /\ InitFileVars
  /\ InitOtherVars
  /\ InitStorageVars
  /\ mode = <<"r">>
  /\ remote = <<>>

NextIndex ==
  \/ Construct
  \/ Clear
  \/ Get
  \/ GetBucketId
  \/ GetBucketName
  \/ Refresh
  \/ SaveBucket
  \/ RemoveBucketName

SpecIndex == InitIndex /\ [][NextIndex]_vars

\* one store holding a session and a bucket index
InitStore ==
  /\ InitCacheVars
  /\ InitFileVars
  /\ InitOtherVars
  /\ InitStorageVars
  /\ mode = <<"r">>
  /\ remote = <<>>

NextStore ==
  \/ Construct
  \/ Clear
  \/ SetCompleteAuthData
  \/ Get
  \/ GetS3ApiUrl
  \/ GetBucketId
  \/ GetBucketName
  \/ Refresh
  \/ SaveBucket
  \/ RemoveBucketName

SpecStore == InitStore /\ [][NextStore]_vars

\* one storage object over an empty django cache, under any options and any
\* state of the service
InitStorage ==
  /\ storage \in {NewStorage(o) : o \in StorageOptions}
  /\ b2 \in Worlds
  /\ apiCalls = <<>>
  /\ sret = NoCall
  /\ cache = EmptyCache
  /\ ret = [op |-> "none", arg |-> <<>>, exc |-> None, val |-> None, removed |-> {}]
  /\ lastSet = AuthArgsA
  /\ authState = "unset"
  /\ InitFileVars
  /\ InitOtherVars
  /\ InitOptionVars
  /\ mode = <<"r">>
  /\ remote = <<>>

NextStorage ==
  \/ StorageInit
  \/ Bucket
  \/ Open
  \/ Save
  \/ Delete
  \/ Exists
  \/ Size
  \/ GetCreatedTime
  \/ Expire
  \/ Url

SpecStorage == InitStorage /\ [][NextStorage]_vars

\* the variables of the other components, as the storage classes meet them
InitBeside ==
  /\ apiCalls = <<>>
  /\ sret = NoCall
  /\ cache = EmptyCache
  /\ ret = [op |-> "none", arg |-> <<>>, exc |-> None, val |-> None, removed |-> {}]
  /\ lastSet = AuthArgsA
  /\ authState = "unset"
  /\ InitFileVars
  /\ InitOtherVars
  /\ mode = <<"r">>
  /\ remote = <<>>

\* the service holds the bucket and the files
HoldingBucket ==
  {w \in Worlds : /\ w.bucket # <<>>
                  /\ w.nonExistentBucketIsNotFound
                  /\ \A n \in FileNames : w.files[n] # <<>>}

\* the construction of one instance of any class, under any settings and any
\* explicit options, over a service that holds the bucket
InitOptions ==
  /\ settings \in AllSettings
  /\ inst = NoInstance
  /\ storage = NewStorage(storageOptions(getDefaultB2StorageOptions))
  /\ b2 \in HoldingBucket
  /\ InitBeside

NextOptions ==
  \/ OptionsConstruct

SpecOptions == InitOptions /\ [][NextOptions]_vars

\* one instance of any class constructed without explicit options under
\* settings that give the credentials only, and its url
InitTier ==
  /\ settings = <<SomeCredentials>>
  /\ inst = NoInstance
  /\ storage = NewStorage(storageOptions(getDefaultB2StorageOptions))
  /\ b2 \in {w \in Worlds : w.nonExistentBucketIsNotFound}
  /\ InitBeside

NextTier ==
  \/ TierConstruct
  \/ TierUrl

SpecTier == InitTier /\ [][NextTier]_vars

\* ===========================================================================
\* Specifications
\* ===========================================================================
\* B2File.__init__: nothing buffered, nothing to upload; the object may or may
\* not exist in the bucket
InitFile ==
  /\ InitFileVars
  /\ InitOtherVars
  /\ mode \in Modes
  /\ remote \in {<<>>, <<<<1, 2>>>>}
  /\ InitCacheVars
  /\ InitStorageVars

NextFile ==
  \/ Read
  \/ Write
  \/ Close

SpecFile == InitFile /\ [][NextFile]_vars

\* ---------------------------------------------------------------------------
\* Properties of B2File
\* ---------------------------------------------------------------------------
\* the step is a call of the method op on the handle
Called(op) == Len(hist') = Len(hist) + 1 /\ hist'[Len(hist')].op = op

OpsOf(op) == {i \in 1..Len(hist) : hist[i].op = op}

\* the payload of the last write() in hist
LastWritten ==
  LET w == OpsOf("write")
  IN  hist[CHOOSE i \in w : \A j \in w : j <= i].arg

\* hist is one or more write() calls and then one close()
WritesThenClose ==
  /\ Len(hist) >= 2
  /\ hist[Len(hist)].op = "close"
  /\ \A i \in 1..(Len(hist) - 1) : hist[i].op = "write"

\* C1: a handle opened for writing that received only write() calls and then
\* close() has made no download call and exactly one upload call, whose
\* payload is the content of the last write().
C1_WriteCloseUploadsLastWrite ==
  (~NotOpenedForWrite(mode) /\ WritesThenClose) =>
    /\ Len(calls) = 1
    /\ calls[1].call = "upload"
    /\ calls[1].data = hist[Len(hist) - 1].arg

C1_Witness ==
  /\ ~NotOpenedForWrite(mode)
  /\ WritesThenClose
  /\ Len(hist) = 3
  /\ hist[1].arg # hist[2].arg
  /\ hist[2].arg # <<>>
  /\ Len(calls) = 1

\* C2: close() on a handle without unwritten data makes no call to the bucket.
C2_CleanCloseNoNetwork ==
  [][(Called("close") /\ ~hasUnwrittenData) => calls' = calls]_vars

C4_DirtyCloseUploadsFullContent ==
  [][(Called("close") /\ hasUnwrittenData) =>
       /\ Len(calls') = Len(calls) + 1
       /\ calls'[Len(calls')].call = "upload"
       /\ calls'[Len(calls')].data = LastWritten]_vars

\* C5: write() on a handle not opened for writing raises the not-writable
\* error and changes nothing: buffer, dirty flag and bucket are as before, and
\* such a handle is never dirty and never uploads, close() included.
C5_ReadOnlyRejectsWrite ==
  /\ [][(Called("write") /\ NotOpenedForWrite(mode)) =>
          /\ fret'.exc = "AttributeError"
          /\ UNCHANGED <<contents, hasUnwrittenData, calls, remote>>]_vars
  /\ [](NotOpenedForWrite(mode) =>
          /\ ~hasUnwrittenData
          /\ \A i \in 1..Len(calls) : calls[i].call # "upload")

C5_Witness ==
  /\ NotOpenedForWrite(mode)
  /\ Len(hist) >= 2
  /\ hist[Len(hist) - 1].op = "write"
  /\ hist[Len(hist) - 1].arg # <<>>
  /\ hist[Len(hist)].op = "close"
  /\ fret.exc = None
  /\ \A i \in 1..Len(calls) : calls[i].call # "upload"

\* ---------------------------------------------------------------------------
\* Properties of DjangoCacheAccountInfo: the session
\* ---------------------------------------------------------------------------
\* every argument of the call was given a value
Complete(a) == \A f \in Fields : a[f] # None

\* the last call was the getter g and it returned v
GetterReturned(g, v) == ret.op = g /\ ret.exc = None /\ ret.val = v

\* C6 (as stated): after _set_auth_data with a value for every field, every
\* getter returns the value last set; once clear() was called after it, every
\* getter, get_s3_api_url included, raises MissingAccountData.
C6_GettersReturnLastSetOrAllFail ==
  /\ (ret.op \in Getters /\ authState = "set" /\ Complete(lastSet)) =>
       GetterReturned(ret.op, lastSet[GetterField[ret.op]])
  /\ (ret.op = "get_s3_api_url" /\ authState = "set" /\ Complete(lastSet)) =>
       GetterReturned(ret.op, lastSet.s3_api_url)
  /\ (ret.op \in Getters \cup {"get_s3_api_url"} /\ authState = "cleared" /\ Complete(lastSet)) =>
       ret.exc = "MissingAccountData"

\* C6 (amended): after _set_auth_data with a value for every field, every
\* getter returns the value last set; once clear() was called after it, every
\* getter wrapped by _handle_result_is_none raises MissingAccountData, and
\* get_s3_api_url returns the empty string without raising.
C6_GettersReturnLastSetOrFailExceptS3 ==
  /\ (ret.op \in Getters /\ authState = "set" /\ Complete(lastSet)) =>
       GetterReturned(ret.op, lastSet[GetterField[ret.op]])
  /\ (ret.op = "get_s3_api_url" /\ authState = "set" /\ Complete(lastSet)) =>
       GetterReturned(ret.op, lastSet.s3_api_url)
  /\ (ret.op \in Getters /\ authState = "cleared" /\ Complete(lastSet)) =>
       ret.exc = "MissingAccountData"
  /\ (ret.op = "get_s3_api_url" /\ authState = "cleared" /\ Complete(lastSet)) =>
       GetterReturned(ret.op, "")

C6_Witness ==
  /\ authState = "cleared"
  /\ lastSet = AuthArgsB
  /\ ret.op = "get_account_auth_token"
  /\ ret.exc = "MissingAccountData"

\* the stored session lacks a field one of the wrapped getters reads
Partial(d) == \E g \in Getters : dict_get(d, GetterField[g]) = None

\* C7: while the stored session lacks a field, every getter wrapped by
\* _handle_result_is_none raises MissingAccountData, whichever is called.
C7_PartialSessionFailsEveryGetter ==
  [][(ret'.op \in Getters /\ ret' # ret /\ Partial(cached_info(cache))) =>
       ret'.exc = "MissingAccountData"]_vars

\* ---------------------------------------------------------------------------
\* Properties of DjangoCacheAccountInfo: the bucket index
\* ---------------------------------------------------------------------------
DistinctIds(pairs) == \A i, j \in 1..Len(pairs) : i # j => pairs[i][2] # pairs[j][2]

\* the names with a name-to-id entry
Indexed(c) == {n \in BucketNames : Truthy(get_bucket_id_or_none_from_bucket_name(c, n))}

\* C8: after refresh_entire_bucket_name_cache(S), every pair of S is found by
\* the name lookup and by the id lookup, and every name indexed before the call
\* and absent from S is found by neither.
C8_RefreshIndexesExactlyS ==
  [][(/\ ret'.op = "refresh_entire_bucket_name_cache"
      /\ <<cache, ret>>' # <<cache, ret>>
      /\ DistinctIds(ret'.arg)) =>
       LET S == ret'.arg
       IN  /\ \A k \in 1..Len(S) :
                /\ get_bucket_id_or_none_from_bucket_name(cache', S[k][1]) = S[k][2]
                /\ get_bucket_name_or_none_from_bucket_id(cache', S[k][2]) = S[k][1]
           /\ \A n \in Indexed(cache) \ PairNames(S) :
                /\ get_bucket_id_or_none_from_bucket_name(cache', n) = None
                /\ \A i \in BucketIds : get_bucket_name_or_none_from_bucket_id(cache', i) # n]_vars

\* C9: refresh_entire_bucket_name_cache is idempotent and independent of the
\* order of its pairs: from the current cache, a second application of the
\* same pairs (in any order) changes nothing, and every ordering of the pairs
\* and of the removals yields the same cache.
C9_RefreshIdempotentOrderIndependent ==
  \A S \in PairLists :
    \A o \in Orders(bucket_names_to_remove(cache, S)) :
      LET once == refresh_entire_bucket_name_cache(cache, S, o)
      IN  /\ bucket_names_to_remove(once, S) = {}
          /\ \A P \in Orders(Range(S)) :
               /\ refresh_entire_bucket_name_cache(once, P, <<>>) = once
               /\ \A o2 \in Orders(bucket_names_to_remove(cache, P)) :
                    refresh_entire_bucket_name_cache(cache, P, o2) = once

C9_Witness ==
  /\ ret.op = "refresh_entire_bucket_name_cache"
  /\ Len(ret.arg) = 2
  /\ ret.removed # {}
  /\ cache_get(cache, KeyBucketNames, <<>>) # <<>>

\* the names in the membership list that have a name-to-id entry
Listed(c) == Range(cache_get(c, KeyBucketNames, <<>>)) \cap Indexed(c)

\* C10: with any number of indexed buckets (of distinct ids), the id lookup of
\* an indexed bucket's id returns its name and the name lookup of that name
\* returns the id; an id that is not indexed yields none; and after
\* remove_bucket_name(name) neither lookup finds the bucket.
C10_IdLookupRoundTrips ==
  /\ [](LET id(n) == get_bucket_id_or_none_from_bucket_name(cache, n)
        IN  (\A n1, n2 \in Listed(cache) : n1 # n2 => id(n1) # id(n2)) =>
              /\ \A n \in Listed(cache) :
                   /\ get_bucket_name_or_none_from_bucket_id(cache, id(n)) = n
                   /\ id(get_bucket_name_or_none_from_bucket_id(cache, id(n))) = id(n)
              /\ \A i \in BucketIds :
                   (\A n \in Listed(cache) : id(n) # i) =>
                     get_bucket_name_or_none_from_bucket_id(cache, i) = None)
  /\ [][ret'.op = "remove_bucket_name" =>
          /\ get_bucket_id_or_none_from_bucket_name(cache', ret'.arg[1]) = None
          /\ \A i \in BucketIds :
               get_bucket_name_or_none_from_bucket_id(cache', i) # ret'.arg[1]]_vars

\* how often name occurs in the membership list of c
Occurrences(c, name) ==
  LET names == cache_get(c, KeyBucketNames, <<>>)
  IN  Cardinality({k \in 1..Len(names) : names[k] = name})

\* C11: the views of the bucket index agree: a name is in the membership list
\* exactly once if and only if its name lookup succeeds, and save_bucket of a
\* name that is already listed does not list it a second time.
C11_IndexViewsAgree ==
  /\ [](\A n \in BucketNames :
          (Occurrences(cache, n) = 1) <=>
            Truthy(get_bucket_id_or_none_from_bucket_name(cache, n)))
  /\ [][(ret'.op = "save_bucket" /\ Occurrences(cache, ret'.arg[1]) = 1) =>
          Occurrences(cache', ret'.arg[1]) = 1]_vars

\* ---------------------------------------------------------------------------
\* Properties of DjangoCacheAccountInfo: clear and construction
\* ---------------------------------------------------------------------------
\* the bucket operations that must succeed on an empty store
SucceedsWhenEmpty(r) ==
  \/ r.op = "refresh_entire_bucket_name_cache" /\ r.arg = <<>>
  \/ r.op = "save_bucket"
  \/ r.op = "remove_bucket_name"

\* the call made right after clear() answers as on a store that holds nothing;
\* failing is the set of getters that raise MissingAccountData
AfterClearNothingStored(failing) ==
  (ret.op = "clear" /\ ret'.op # "clear") =>
    /\ ret'.op \in failing => ret'.exc = "MissingAccountData"
    /\ ret'.op = "get_bucket_id_or_none_from_bucket_name" => ret'.val = None
    /\ ret'.op = "get_bucket_name_or_none_from_bucket_id" => ret'.val = None
    /\ SucceedsWhenEmpty(ret') =>
         /\ ret'.exc = None
         /\ \E n \in BucketNames, i \in BucketIds :
              cache' \in {construct(EmptyCache),
                          save_bucket(construct(EmptyCache), n, i)}

\* C12: after clear() the store behaves as if nothing was ever stored: every
\* session getter raises MissingAccountData, both bucket lookups return None,
\* and refresh_entire_bucket_name_cache([]), save_bucket and
\* remove_bucket_name each succeed as on a new store.
C12_ClearLeavesNothingStored ==
  /\ [](ret.op = "clear" => cache = construct(EmptyCache))
  /\ [][AfterClearNothingStored(Getters \cup {"get_s3_api_url"})]_vars

\* C12, amended: as above for the getters wrapped by _handle_result_is_none;
\* get_s3_api_url returns the empty string without raising.
C12_ClearLeavesNothingStoredExceptS3 ==
  /\ [](ret.op = "clear" => cache = construct(EmptyCache))
  /\ [][AfterClearNothingStored(Getters)]_vars
  /\ [][(ret.op = "clear" /\ ret'.op = "get_s3_api_url") =>
          (ret'.exc = None /\ ret'.val = "")]_vars

C12_Witness ==
  /\ authState = "cleared"
  /\ ret.op = "clear"
  /\ lastSet = AuthArgsB
  /\ cache = construct(EmptyCache)

\* C13: constructing a DjangoCacheAccountInfo over a cache that holds a
\* session and a bucket index changes neither: every session getter, the name
\* lookup, the id lookup and the membership list answer as before.
C13_ConstructionKeepsStoredData ==
  [][ret'.op = "__init__" =>
       /\ \A g \in Getters :
            /\ getter(cache', g).exc = getter(cache, g).exc
            /\ getter(cache', g).val = getter(cache, g).val
       /\ get_s3_api_url(cache') = get_s3_api_url(cache)
       /\ \A n \in BucketNames :
            get_bucket_id_or_none_from_bucket_name(cache', n) =
              get_bucket_id_or_none_from_bucket_name(cache, n)
       /\ \A i \in BucketIds :
            get_bucket_name_or_none_from_bucket_id(cache', i) =
              get_bucket_name_or_none_from_bucket_id(cache, i)
       /\ cache_get(cache', KeyBucketNames, <<>>) =
            cache_get(cache, KeyBucketNames, <<>>)]_vars

\* ---------------------------------------------------------------------------
\* Properties of BackblazeB2Storage: authorization and the bucket
\* ---------------------------------------------------------------------------
\* the calls B2 receives in this step
NewCalls == apiCalls'

\* the positions of the calls of one kind in a sequence of calls
CallsOf(log, call) == {i \in 1..Len(log) : log[i].call = call}

\* the step is the constructor of the storage object running
Constructing == ~storage.constructed /\ sret'.op = "__init__" /\ vars' # vars

\* the step is a call of op on the constructed storage object
StorageCalled(ops) == storage.constructed /\ sret'.op \in ops /\ vars' # vars

\* the storage object holds a B2Api whose authorize_account call returned
Authorized == storage.hasB2Api /\ storage.authorized

\* C14: once authorize_account has returned for a storage object, no later
\* operation on the object calls it again; and a constructor run with
\* authorizeOnInit and validateOnInit calls authorize_account exactly once,
\* with the realm, key id and key, and then get_bucket_by_name exactly once,
\* with the configured bucket name.
C14_AuthorizeOnce ==
  /\ [][(storage.constructed /\ Authorized) =>
          CallsOf(NewCalls, "authorize_account") = {}]_vars
  /\ [][(Constructing /\ storage.opts.authorizeOnInit /\ storage.opts.validateOnInit) =>
          /\ CallsOf(NewCalls, "authorize_account") = {1}
          /\ NewCalls[1].args = AuthInfo
          /\ NewCalls[1].exc = None =>
               /\ CallsOf(NewCalls, "get_bucket_by_name") = {2}
               /\ NewCalls[2].args = <<BucketName>>]_vars

C14_Witness ==
  /\ storage.constructed
  /\ storage.opts.authorizeOnInit
  /\ storage.opts.validateOnInit
  /\ storage.authorized
  /\ sret.op = "exists"
  /\ sret.exc = None
  /\ CallsOf(apiCalls, "get_file_info_by_name") = {1}
  /\ CallsOf(apiCalls, "authorize_account") = {}

\* C15: without authorizeOnInit the constructor makes no remote call, whatever
\* validateOnInit is, and no get_bucket_by_name call is made before an
\* authorize_account call has returned.
C15_LazyAuthorizeBeforeLookup ==
  /\ [][(Constructing /\ ~storage.opts.authorizeOnInit) =>
          (NewCalls = <<>> /\ storage'.constructed)]_vars
  /\ [][~storage.opts.authorizeOnInit =>
          \A i \in CallsOf(NewCalls, "get_bucket_by_name") :
            \/ storage.authorized
            \/ \E j \in CallsOf(NewCalls, "authorize_account") :
                 j < i /\ NewCalls[j].exc = None]_vars

\* the step receives NonExistentBucket from get_bucket_by_name
BucketFoundAbsent ==
  \E i \in CallsOf(NewCalls, "get_bucket_by_name") : NewCalls[i].exc = "NonExistentBucket"

C17_DetailsCreateBucket ==
  [][(storage.opts.nonExistentBucketDetails # <<>> /\ BucketFoundAbsent) =>
       LET c == CallsOf(NewCalls, "create_bucket")
       IN  /\ Cardinality(c) = 1
           /\ \A i \in c :
                /\ NewCalls[i].args =
                     <<BucketName,
                       WithDefaultBucketType(storage.opts.nonExistentBucketDetails[1])>>
                /\ NewCalls[i].exc = None => storage'.bucket # <<>>]_vars

\* ---------------------------------------------------------------------------
\* Properties of BackblazeB2Storage: delete and exists
\* ---------------------------------------------------------------------------
\* the last call B2 receives in this step is a get_file_info_by_name ending
\* with exc
FileInfoFetched(exc) ==
  /\ NewCalls # <<>>
  /\ NewCalls[Len(NewCalls)].call = "get_file_info_by_name"
  /\ NewCalls[Len(NewCalls)].exc = exc

\* C18: delete(name) whose file information lookup reports not-found calls
\* delete_file_version zero times, does not raise, and leaves the cached file
\* information as it was.
C18_DeleteOfAbsentIsNoOp ==
  [][(StorageCalled({"delete"}) /\ FileInfoFetched("FileNotPresent")) =>
       /\ CallsOf(NewCalls, "delete_file_version") = {}
       /\ sret'.exc = None
       /\ FileInfoEntries(cache') = FileInfoEntries(cache)]_vars

C18_Witness ==
  /\ sret.op = "delete"
  /\ sret.exc = None
  /\ ~storage.opts.forbidFilePropertyCaching
  /\ Len(apiCalls) = 3
  /\ apiCalls[3].call = "get_file_info_by_name"
  /\ apiCalls[3].exc = "FileNotPresent"
  /\ FileInfoEntries(cache) = <<>>

\* the file id delete(name) resolves: the cached one, else the newest version
ResolvedFileId(name) ==
  IF name \in DOMAIN FileInfoEntries(cache) /\ ~storage.opts.forbidFilePropertyCaching
  THEN FileInfoEntries(cache)[name].fileId
  ELSE LatestVersion(b2, name)[1].fileId

\* C19: delete(name) of an existing object calls delete_file_version once,
\* with the resolved file id, and removes the cached file information of name
\* only after that call returned; the exists(name) or size(name) that follows
\* a completed delete fetches the file information from B2.
C19_DeleteThenInvalidate ==
  /\ [][(StorageCalled({"delete"}) /\ CallsOf(NewCalls, "delete_file_version") # {}) =>
          LET d == CallsOf(NewCalls, "delete_file_version")
              name == sret'.arg[1]
          IN  /\ Cardinality(d) = 1
              /\ \A i \in d :
                   /\ NewCalls[i].args = <<ResolvedFileId(name), name>>
                   /\ i = Len(NewCalls)
                   /\ NewCalls[i].exc = None =>
                        name \notin DOMAIN FileInfoEntries(cache')
                   /\ (NewCalls[i].exc # None /\ ~storage.opts.forbidFilePropertyCaching) =>
                        name \in DOMAIN FileInfoEntries(cache')]_vars
  /\ [][(/\ sret.op = "delete" /\ sret.exc = None
         /\ CallsOf(apiCalls, "delete_file_version") # {}
         /\ StorageCalled({"exists", "size"}) /\ sret'.arg = sret.arg) =>
          CallsOf(NewCalls, "get_file_info_by_name") # {}]_vars

C19_Witness ==
  /\ ~storage.opts.forbidFilePropertyCaching
  /\ sret.op = "delete"
  /\ sret.exc = None
  /\ Len(apiCalls) = 1
  /\ apiCalls[1].call = "delete_file_version"
  /\ apiCalls[1].args[1] = 2
  /\ FileInfoEntries(cache) = <<>>

\* C20: exists(name) returns False when get_file_info_by_name reports
\* not-found and only when a lookup reported not-found, returns True when the
\* file information is found, and raises any other error of a remote call
\* unchanged.
C20_ExistsFalseOnlyOnNotFound ==
  [][StorageCalled({"exists"}) =>
       /\ FileInfoFetched("FileNotPresent") => (sret'.exc = None /\ sret'.val = FALSE)
       /\ FileInfoFetched(None) => (sret'.exc = None /\ sret'.val = TRUE)
       /\ (sret'.exc = None /\ sret'.val = FALSE) =>
            /\ NewCalls # <<>>
            /\ NewCalls[Len(NewCalls)].exc \in {"FileNotPresent", "NonExistentBucket"}
       /\ \A i \in 1..Len(NewCalls) :
            NewCalls[i].exc = "B2Error" => sret'.exc = "B2Error"]_vars

C20_Witness ==
  /\ sret.op = "exists"
  /\ sret.exc = "B2Error"
  /\ apiCalls # <<>>
  /\ apiCalls[Len(apiCalls)].call = "get_file_info_by_name"
  /\ apiCalls[Len(apiCalls)].exc = "B2Error"

\* ---------------------------------------------------------------------------
\* Properties of BackblazeB2Storage: the cached file information
\* ---------------------------------------------------------------------------
\* the operations that look the file information up without changing the file
Lookups == {"exists", "size", "get_created_time"}

\* every call B2 receives in this step returns
NoCallFails == \A i \in 1..Len(NewCalls) : NewCalls[i].exc = None

\* C21: with caching enabled, a lookup (exists, size, created time) of an
\* existing object whose file information is not cached fetches it from B2
\* exactly once and caches it; a lookup of a name whose file information is
\* cached fetches nothing; and a cached file information stays until a delete
\* or the expiry of its timeout.
C21_OneFetchThenCached ==
  /\ [][(StorageCalled(Lookups) /\ ~storage.opts.forbidFilePropertyCaching) =>
          LET name == sret'.arg[1]
              fetches == CallsOf(NewCalls, "get_file_info_by_name")
          IN  /\ name \in DOMAIN FileInfoEntries(cache) =>
                   /\ fetches = {}
                   /\ FileInfoEntries(cache') = FileInfoEntries(cache)
              /\ (/\ name \notin DOMAIN FileInfoEntries(cache)
                  /\ LatestVersion(b2, name) # <<>>
                  /\ NoCallFails) =>
                   /\ Cardinality(fetches) = 1
                   /\ name \in DOMAIN FileInfoEntries(cache')
                   /\ FileInfoEntries(cache')[name] = LatestVersion(b2, name)[1]]_vars
  /\ [][\A name \in DOMAIN FileInfoEntries(cache) :
          sret'.op \notin {"delete", "expire"} =>
            /\ name \in DOMAIN FileInfoEntries(cache')
            /\ FileInfoEntries(cache')[name] = FileInfoEntries(cache)[name]]_vars

\* a created-time lookup answered from the cache: B2 receives no call
C21_Witness ==
  /\ ~storage.opts.forbidFilePropertyCaching
  /\ sret.op = "get_created_time"
  /\ sret.exc = None
  /\ apiCalls = <<>>
  /\ "some/file.txt" \in DOMAIN FileInfoEntries(cache)

\* the last operation was an exists(name) that fetched the file information
\* of name, was told not-found and returned False
ExistsFoundNothing ==
  /\ sret.op = "exists"
  /\ sret.exc = None
  /\ sret.val = FALSE
  /\ apiCalls # <<>>
  /\ apiCalls[Len(apiCalls)].call = "get_file_info_by_name"
  /\ apiCalls[Len(apiCalls)].exc = "FileNotPresent"

\* C22: with caching enabled, the exists(name) that directly follows an
\* exists(name) answered not-found by B2 fetches nothing: the not-found
\* outcome is cached.
C22_NotFoundIsCached ==
  [][(/\ ~storage.opts.forbidFilePropertyCaching
      /\ ExistsFoundNothing
      /\ StorageCalled({"exists"})
      /\ sret'.arg = sret.arg) =>
       CallsOf(NewCalls, "get_file_info_by_name") = {}]_vars

\* ---------------------------------------------------------------------------
\* Properties of the option resolution
\* ---------------------------------------------------------------------------
\* the deep merge of the layer higher over the layer lower: a key of higher
\* wins, and under a key whose value is a dict in both, each sub-key of higher
\* wins and the other sub-keys of lower stay
deepMerge(lower, higher) ==
  [k \in DOMAIN lower \cup DOMAIN higher |->
     IF k \notin DOMAIN higher THEN lower[k]
     ELSE IF k \notin DOMAIN lower THEN higher[k]
     ELSE IF k \in DictKeys THEN higher[k] @@ lower[k]
     ELSE higher[k]]

\* the last call was a constructor that resolved its options
OptionsResolved == sret.op = "__init__" /\ inst.exc = None

\* C23: the options a constructor resolves are the deep merge of the explicit
\* options over the deep merge of BACKBLAZE_CONFIG over the defaults.
C23_DeepMergeInOrder ==
  OptionsResolved =>
    inst.opts = deepMerge(deepMerge(getDefaultB2StorageOptions, inst.config[1]),
                          ExplicitOf(inst.kwargs))

\* the options the caller of the constructor supplies, as opts or as keyword
\* arguments
Supplied(kwargs) == kwargs.named @@ ExplicitOf(kwargs)

\* the keys of d that are no option, in the order of d
Unrecognized(d) ==
  LET unknown(k) == k \notin DOMAIN getDefaultB2StorageOptions
  IN  SelectSeq(KeysOf(d), unknown)

\* BACKBLAZE_CONFIG of the last constructor call passes the checks of the
\* settings
SettingsValid == getDjangoSettingsOptions(inst.config).exc = None

\* C24: under valid settings, a constructor call that supplies a key that is
\* no option raises ImproperlyConfigured with a message that lists the keys,
\* leaves no object and makes no remote call.
C24_UnrecognizedOptionFails ==
  (/\ sret.op = "__init__"
   /\ SettingsValid
   /\ Unrecognized(Supplied(inst.kwargs)) # <<>>) =>
    /\ sret.exc = "ImproperlyConfigured"
    /\ inst.msg = <<"Unrecognized options:", Unrecognized(Supplied(inst.kwargs))>>
    /\ apiCalls = <<>>
    /\ ~storage.constructed

\* d with id and key in the place of the credentials it gives
WithCredentials(d, id, key) ==
  [k \in DOMAIN d |-> IF k = "application_key_id" THEN id
                      ELSE IF k = "application_key" THEN key
                      ELSE d[k]]

\* the constructor calls that differ from the last one in the values of the
\* credentials only: the settings and the keyword arguments of each
SameButCredentials ==
  {[config |-> IF inst.config = <<>> THEN <<>>
               ELSE <<WithCredentials(inst.config[1], c[1], c[2])>>,
    kwargs |-> Kwargs(IF inst.kwargs.opts = <<>> THEN <<>>
                      ELSE <<WithCredentials(inst.kwargs.opts[1], c[3], c[4])>>,
                      WithCredentials(inst.kwargs.named, c[3], c[4]))] :
     c \in Ids \X Keys \X Ids \X Keys}

\* C25: a constructor call that differs from the last one in the values of
\* application_key_id and application_key only writes the same log lines and
\* raises the same error message.
C25_LogsIndependentOfCredentials ==
  sret.op = "__init__" =>
    \A other \in SameButCredentials :
      /\ resolveOptions(inst.cls, other.config, other.kwargs).log = inst.log
      /\ resolveOptions(inst.cls, other.config, other.kwargs).msg = inst.msg

\* C26: PublicStorage, LoggedInStorage or StaffStorage constructed with opts
\* that give bucket, application_key_id or application_key raises
\* ImproperlyConfigured, leaves no object and makes no remote call.
C26_ProxiedClassesRejectBucketAndCredentials ==
  (/\ sret.op = "__init__"
   /\ inst.cls # Base
   /\ {"bucket", "application_key_id", "application_key"}
        \cap DOMAIN ExplicitOf(inst.kwargs) # {}) =>
    /\ sret.exc = "ImproperlyConfigured"
    /\ apiCalls = <<>>
    /\ ~storage.constructed

\* ---------------------------------------------------------------------------
\* Properties of PublicStorage, LoggedInStorage and StaffStorage: url
\* ---------------------------------------------------------------------------
\* the last call was url(name) with a name, on an instance of one of classes
UrlReturned(classes) ==
  /\ sret.op = "url"
  /\ inst.cls \in classes
  /\ sret.arg[1] # ""

\* what getBackblazeUrl(name) returns: the download url of B2
DirectUrl(name) == <<"download-url", BucketName, name>>

\* C27: url(name) of a LoggedInStorage returns the path of the route
\* b2-logged-in, and url(name) of a StaffStorage the path of the route
\* b2-staff, for every name that is not empty.
C27_GatedTiersReturnRoutePath ==
  /\ UrlReturned({"LoggedInStorage"}) =>
       (sret.exc = None /\ sret.val = reverse("logged_in", sret.arg[1]))
  /\ UrlReturned({"StaffStorage"}) =>
       (sret.exc = None /\ sret.val = reverse("staff", sret.arg[1]))

\* C28: url(name) of a PublicStorage returns the download url of B2 if and
\* only if the instance has recorded the bucket as allPublic, and the path of
\* the route b2-public in every other case.
C28_PublicUrlDirectIffPublic ==
  (UrlReturned({"PublicStorage"}) /\ sret.exc = None) =>
    IF inst.bucket_type = "allPublic" THEN sret.val = DirectUrl(sret.arg[1])
    ELSE sret.val = reverse("public", sret.arg[1])

\* as_dict answers without bucketType twice, then allPublic
TwiceIndeterminate == [first |-> <<None, None>>, then |-> "allPublic"]

\* C29: when as_dict answers without bucketType twice and then allPublic, a
\* PublicStorage that was constructed and asked for url(name) has called
\* as_dict exactly 3 times and refreshed the bucket exactly once, and url
\* returned the download url of B2.
C29_ThreeReadsOneRefresh ==
  (UrlReturned({"PublicStorage"}) /\ inst.script = TwiceIndeterminate) =>
    /\ inst.reads = 3
    /\ inst.refreshes = 1
    /\ sret.exc = None
    /\ sret.val = DirectUrl(sret.arg[1])

\* C30: one url(name) call on a PublicStorage calls as_dict at most twice and
\* refreshes the bucket at most once, whatever as_dict answers.
C30_ProbeIsBounded ==
  [][(StorageCalled({"url"}) /\ inst.cls = "PublicStorage") =>
       /\ inst'.reads - inst.reads <= 2
       /\ inst'.refreshes - inst.refreshes <= 1]_vars

\* url(name) of a PublicStorage returned while as_dict never answers with a
\* bucketType
C30_Witness ==
  /\ UrlReturned({"PublicStorage"})
  /\ sret.exc = None
  /\ inst.script = [first |-> <<>>, then |-> None]

\* ---------------------------------------------------------------------------
\* Properties of BackblazeB2Storage: a failed authorization, a save
\* ---------------------------------------------------------------------------
\* the step receives an error from authorize_account
AuthorizeFailed ==
  \E i \in CallsOf(NewCalls, "authorize_account") : NewCalls[i].exc # None

\* C37: a step in which authorize_account fails leaves the storage object
\* without a B2Api, and a call on a storage object whose authorize_account
\* has not returned makes authorize_account its first remote call.
C37_FailedAuthorizeStaysUnauthorized ==
  /\ [][AuthorizeFailed => ~storage'.hasB2Api]_vars
  /\ [][(storage.constructed /\ ~storage.authorized /\ NewCalls # <<>>) =>
          NewCalls[1].call = "authorize_account"]_vars

\* C40: with caching enabled, the exists(name) or size(name) that directly
\* follows a completed save under name answers from the object just stored:
\* exists returns True and size returns the size of the newest version.
C40_LookupAfterSaveIsFresh ==
  [][(/\ ~storage.opts.forbidFilePropertyCaching
      /\ sret.op = "save" /\ sret.exc = None
      /\ StorageCalled({"exists", "size"})
      /\ sret'.arg[1] = sret.arg[1]
      /\ sret'.exc = None) =>
       /\ sret'.op = "exists" => sret'.val = TRUE
       /\ sret'.op = "size" => sret'.val = LatestVersion(b2, sret.arg[1])[1].size]_vars

\* ---------------------------------------------------------------------------
\* Properties of DjangoCacheAccountInfo: the rest of a shared cache
\* ---------------------------------------------------------------------------
\* the keys of the cache c other than the session: the "bucket_names" list,
\* the name-to-id entries and the cached file information
OtherKeys(c) == DOMAIN c \ {KeyAccountInfo}

\* C38: a getter that raises MissingAccountData leaves every key of the cache
\* other than the session as it was: the "bucket_names" list, the name-to-id
\* entries and the cached file information.
C38_FailedGetterKeepsRest ==
  [][(ret'.op \in Getters /\ ret'.exc = "MissingAccountData") =>
       /\ OtherKeys(cache') = OtherKeys(cache)
       /\ \A k \in OtherKeys(cache) : cache'[k] = cache[k]
       /\ FileInfoEntries(cache') = FileInfoEntries(cache)]_vars

\* ---------------------------------------------------------------------------
\* Properties of the visibility probe of PublicStorage
\* ---------------------------------------------------------------------------
\* C32: _bucket_type of a PublicStorage is None, "allPublic" or "allPrivate";
\* it changes only to the bucketType the last as_dict call of the step
\* answered, never to None; and while it is None, every url(name) call that
\* returns has called as_dict on the bucket.
C32_IndeterminateIsNotRecorded ==
  /\ [](inst.bucket_type \in {None, "allPublic", "allPrivate"})
  /\ [][inst'.bucket_type # inst.bucket_type =>
          /\ inst'.bucket_type # None
          /\ inst'.reads > inst.reads
          /\ inst'.bucket_type = Answer(inst.script, inst'.reads)]_vars
  /\ [][(/\ StorageCalled({"url"})
         /\ inst.cls = "PublicStorage"
         /\ inst.bucket_type = None
         /\ sret'.exc = None) =>
          inst'.reads > inst.reads]_vars

\* ---------------------------------------------------------------------------
\* The bucket handle of a storage object and its refresh
\* (storage.py _refreshBucket)
\* ---------------------------------------------------------------------------
BucketTypes == {"allPrivate", "allPublic"}

\* Bucket.get_fresh_state(): the bucket as the service holds it now, fetched
\* with one remote call; the handle it is called on stays as it is
get_fresh_state(s, fault) ==
  IF fault = "get_fresh_state"
  THEN Raised(Logged(s, "get_fresh_state", <<BucketName>>, "B2Error"), "B2Error")
  ELSE Ok(Logged(s, "get_fresh_state", <<BucketName>>, None), s.b2.bucket[1])

\* BackblazeB2Storage._refreshBucket: the fresh state is returned, self._bucket
\* is not assigned
refreshBucket(s, fault) ==
  IF s.st.bucket # <<>> THEN get_fresh_state(s, fault)
  ELSE bucket(s, fault)

\* storage._refreshBucket()
RefreshBucket ==
  /\ Callable
  /\ \E fault \in {None, "get_fresh_state"} :
       \E r \in {refreshBucket(Machine, fault)} :
         Finished(r, r.s.st, "_refreshBucket", <<>>)

\* another client of the service changes the type of the bucket
UpdateBucketType ==
  /\ b2.bucket # <<>>
  /\ \E type \in BucketTypes \ {b2.bucket[1].type} :
       b2' = [b2 EXCEPT !.bucket[1].type = type]
  /\ apiCalls' = <<>>
  /\ sret' = [op |-> "update_bucket", arg |-> <<>>, exc |-> None, val |-> None]
  /\ UNCHANGED <<storage, cache, settings, inst>>
  /\ UNCHANGED varsFile
  /\ UNCHANGED <<ret, lastSet, authState>>
  /\ UNCHANGED varsOther

\* one storage object, its bucket handle and the refresh of it, while the
\* type of the bucket changes at the service
NextRefresh ==
  \/ StorageInit
  \/ Bucket
  \/ RefreshBucket
  \/ UpdateBucketType

SpecRefresh == InitStorage /\ [][NextRefresh]_vars

\* C33: when _refreshBucket returns, the bucket handle of the storage object
\* is the bucket as the service holds it, so that the self.bucket.as_dict()
\* the visibility probe makes after its refresh answers with the type the
\* bucket has at the service.
C33_RefreshTakesEffect ==
  [][(StorageCalled({"_refreshBucket"}) /\ sret'.exc = None) =>
       /\ storage'.bucket # <<>>
       /\ storage'.bucket[1] = b2.bucket[1]]_vars

\* ---------------------------------------------------------------------------
\* Properties of the option resolution: the inputs of a construction
\* ---------------------------------------------------------------------------
\* C39: a construction leaves BACKBLAZE_CONFIG as it was, nested dicts
\* included, so that an instance constructed after it without explicit
\* options resolves the options it would have resolved before it.
C39_ConstructionKeepsInputs ==
  [][sret'.op = "__init__" =>
       /\ settings' = settings
       /\ \A cls \in Classes :
            resolveOptions(cls, settings', NoKwargs) =
              resolveOptions(cls, settings, NoKwargs)]_vars

\* ---------------------------------------------------------------------------
\* Properties of stores that share one cache
\* ---------------------------------------------------------------------------
\* two stores over one cache, constructed, each making save_bucket and
\* _set_auth_data calls, their cache operations interleaved
InitShared ==
  /\ InitCacheVars
  /\ InitFileVars
  /\ InitOtherVars
  /\ InitStorageVars
  /\ mode = <<"r">>
  /\ remote = <<>>

NextShared ==
  \/ CallSaveBucket
  \/ StepSaveBucket
  \/ CallSetAuthData
  \/ StepSetAuthData

SpecShared == InitShared /\ [][NextShared]_vars

\* the last call of store p was save_bucket and has returned
SavedBy(p) == workers[p].op = "save_bucket" /\ workers[p].pc = 0

\* C35: when the last call of each of the two stores was a save_bucket, of two
\* distinct names, and both have returned, "bucket_names" holds both names
\* and the name-to-id entry of each is stored.
C35_ConcurrentSavesKeepBothNames ==
  ((\A p \in Stores : SavedBy(p)) /\ workers[1].bucket[1] # workers[2].bucket[1]) =>
    \A p \in Stores :
      /\ workers[p].bucket[1] \in Range(cache_get(cache, KeyBucketNames, <<>>))
      /\ get_bucket_id_or_none_from_bucket_name(cache, workers[p].bucket[1]) =
           workers[p].bucket[2]

\* the session the cache holds is the dict of one _set_auth_data call
SessionOfOneCall ==
  \E auth \in {AuthArgsA, AuthArgsB} : cached_info(cache) = set_auth_data(auth)

\* C36: the cache holds no session, or a session equal, field by field, to
\* the arguments of one _set_auth_data call, whatever the interleaving of the
\* cache operations of the stores.
C36_SessionIsOneCall ==
  KeyAccountInfo \notin DOMAIN cache \/ SessionOfOneCall

\* both stores have set a session, with different arguments
C36_Witness ==
  /\ \A p \in Stores : workers[p].op = "_set_auth_data" /\ workers[p].pc = 0
  /\ workers[1].auth # workers[2].auth
  /\ SessionOfOneCall

\* ---------------------------------------------------------------------------
\* Properties of the remote calls: retries
\* ---------------------------------------------------------------------------
\* one storage object under the default flags over a service that holds the
\* bucket and the file, and one FileMetaShim for the file
InitShim ==
  /\ InitStorage
  /\ storage.opts.nonExistentBucketDetails = <<>>
  /\ ~storage.opts.forbidFilePropertyCaching
  /\ storage.opts.validateOnInit
  /\ b2 \in HoldingBucket

NextShim ==
  \/ StorageInit
  \/ Exists
  \/ Delete
  \/ ShimNew
  \/ ShimAsDict
  \/ ShimExists

SpecShim == InitShim /\ [][NextShim]_vars

\* the errors of a remote call that say not-found
NotFoundErrors ==
  {"FileNotPresent", "NonExistentBucket", "FileOrBucketNotFound", HTTPError("404")}

\* the calls of this step that failed with an error other than not-found
FailedCalls ==
  {i \in 1..Len(NewCalls) : NewCalls[i].exc \notin {None} \cup NotFoundErrors}

\* the failed call i ends the step: no call follows it and the caller of the
\* operation gets an error
Propagates(i) == i = Len(NewCalls) /\ sret'.exc # None

\* C34 as stated: in every operation, of the storage object and of the
\* FileMetaShim alike, a remote call that fails with an error other than
\* not-found is the last call of the operation, and the operation raises.
C34_NoRemoteCallIsRetried ==
  [][\A i \in FailedCalls : Propagates(i)]_vars

\* the failed call i is a HEAD request that as_dict handles: i is followed by
\* an authorize_automatically call; either that call is the last and the
\* operation raises, or it returned and is followed by the download
\* authorization and the HEAD request of the next attempt
HeadRetried(i) ==
  /\ sret'.op \in {"FileMetaShim.as_dict", "FileMetaShim.exists"}
  /\ NewCalls[i].call = "head"
  /\ Len(NewCalls) >= i + 1
  /\ NewCalls[i + 1].call = "authorize_automatically"
  /\ IF Len(NewCalls) = i + 1 THEN sret'.exc # None
     ELSE /\ NewCalls[i + 1].exc = None
          /\ Len(NewCalls) >= i + 3
          /\ NewCalls[i + 2].call = "get_download_authorization"
          /\ NewCalls[i + 3].call = "head"

\* C34 amended: a remote call that fails with an error other than not-found
\* is the last call of the operation, and the operation raises, except for
\* the HEAD request of FileMetaShim, which is followed by
\* authorize_automatically and, when that returned True, made again, up to 4
\* requests in all; a HEAD answered 404 is always the last call.
C34_OnlyHeadIsRetried ==
  /\ [][\A i \in FailedCalls : Propagates(i) \/ HeadRetried(i)]_vars
  /\ [][Cardinality(CallsOf(NewCalls, "head")) <= HeadAttempts]_vars
  /\ [][\A i \in CallsOf(NewCalls, "head") :
          NewCalls[i].exc = HTTPError("404") => i = Len(NewCalls)]_vars

\* as_dict made 4 HEAD requests, authorized between them, and raised the
\* error of the last
C34_Witness ==
  /\ sret.op = "FileMetaShim.as_dict"
  /\ sret.exc = HTTPError("401")
  /\ Cardinality(CallsOf(apiCalls, "head")) = HeadAttempts
  /\ Cardinality(CallsOf(apiCalls, "authorize_automatically")) = 3
  /\ shim.meta = <<>>

\* ===========================================================================
\* The download views  (src/django_backblaze_b2/views.py)
\* ===========================================================================
\* the views and the class each one constructs
Views ==
  [downloadPublicFile |-> "PublicStorage", downloadLoggedInFile |-> "LoggedInStorage",
   downloadStaffFile |-> "StaffStorage"]

\* Bucket.download_file_by_name(file_name), called by B2File._readFileContents
\* on the first read of the file
download_file_by_name(s, name, fault) ==
  IF fault = "download_file_by_name"
  THEN Raised(Logged(s, "download_file_by_name", <<name>>, "B2Error"), "B2Error")
  ELSE IF LatestVersion(s.b2, name) = <<>>
  THEN Raised(Logged(s, "download_file_by_name", <<name>>, "FileNotPresent"),
              "FileNotPresent")
  ELSE Ok(Logged(s, "download_file_by_name", <<name>>, None),
          <<"FileResponse", LatestVersion(s.b2, name)[1].fileId>>)

\* BackblazeB2Storage.getBackblazeUrl
getBackblazeUrl(s, filename, fault) ==
  Then(b2Api(s, fault), LAMBDA a : Ok(a.s, <<"download-url", BucketName, filename>>))

\* lines 38 to 42 of _downloadFileFromStorage: the debug line, whose errors
\* are logged and dropped
debugLine(s, filename, debug, fault) ==
  IF ~debug THEN Ok(s, None)
  ELSE Bind(getBackblazeUrl(s, filename, fault), LAMBDA u : Ok(u.s, None))

\* another client of the service deletes every version of name
vanished(s, name, vanishes) ==
  IF vanishes THEN [s EXCEPT !.b2.files[name] = <<>>] ELSE s

\* FileResponse(storage.open(filename, "r")) and the first read of the file it
\* was handed: open makes no remote call, the B2File downloads on the first
\* access of its file
FileResponse(s, filename, fault) ==
  Then(open(s, filename, fault), LAMBDA o : download_file_by_name(o.s, filename, fault))

\* the exceptions of "except (FileNotFoundError, FileNotPresent)"
CaughtByView == {"FileNotFoundError", "FileNotPresent"}

HttpResponseNotFound(s, filename) == Ok(s, <<"HttpResponseNotFound", filename>>)

\* lines 44 to 50 of _downloadFileFromStorage; vanishes: the object is deleted
\* after storage.exists returned. eager: the constructor of FileResponse
\* touches the file (it does in the django releases whose set_headers asks
\* the file for seek), so that an error of the download is raised inside the
\* try block; else the download runs when the response is streamed, after
\* the view returned, and nothing catches its error.
tryDownload(s, filename, vanishes, eager, fault) ==
  Bind(exists(s, filename, fault), LAMBDA e :
    IF e.exc \in CaughtByView THEN HttpResponseNotFound(e.s, filename)
    ELSE IF e.exc # None THEN e
    ELSE IF ~e.val THEN HttpResponseNotFound(e.s, filename)
    ELSE Bind(FileResponse(vanished(e.s, filename, vanishes), filename, fault), LAMBDA r :
           IF eager /\ r.exc \in CaughtByView THEN HttpResponseNotFound(r.s, filename)
           ELSE r))

\* views._downloadFileFromStorage(storage, filename)
downloadFileFromStorage(s, filename, debug, vanishes, eager, fault) ==
  Then(debugLine(s, filename, debug, fault),
       LAMBDA g : tryDownload(g.s, filename, vanishes, eager, fault))

\* a view called for a user it lets in: the storage object is constructed,
\* then _downloadFileFromStorage runs on it
downloadFile(s, filename, debug, vanishes, eager, fault) ==
  Then(init(s, fault),
       LAMBDA c : downloadFileFromStorage([c.s EXCEPT !.st.constructed = TRUE],
                                          filename, debug, vanishes, eager, fault))

\* --- actions ---------------------------------------------------------------
\* a request for filename reaches a view
Download ==
  \E view \in DOMAIN Views, filename \in FileNames, debug \in BOOLEAN,
     vanishes \in BOOLEAN, eager \in BOOLEAN, fault \in Faults \cup {"download_file_by_name"} :
    \E r \in {downloadFile([Machine EXCEPT !.st = NewStorage(storage.opts)],
                           filename, debug, vanishes, eager, fault)} :
      Finished(r, r.s.st, view, <<filename>>)

\* a client of the service uploads a version of name
RemoteUpload ==
  /\ b2.nextId <= MaxVersions
  /\ \E name \in FileNames :
       b2' = [b2 EXCEPT !.files[name] =
                          Append(@, [fileId |-> b2.nextId, size |-> 1,
                                      uploadTimestamp |-> b2.nextId]),
                        !.nextId = @ + 1]
  /\ apiCalls' = <<>>
  /\ sret' = [op |-> "upload", arg |-> <<>>, exc |-> None, val |-> None]
  /\ UNCHANGED <<storage, cache, settings, inst>>
  /\ UNCHANGED varsFile
  /\ UNCHANGED <<ret, lastSet, authState>>
  /\ UNCHANGED varsOther

\* the views over a service that holds the bucket, under any options of the
\* storage classes
InitView ==
  /\ InitStorage
  /\ storage.opts.nonExistentBucketDetails = <<>>
  /\ b2.bucket # <<>>
  /\ b2.nonExistentBucketIsNotFound

NextView ==
  \/ Download
  \/ RemoteUpload
  \/ Expire

SpecView == InitView /\ [][NextView]_vars

\* ---------------------------------------------------------------------------
\* Properties of the download views
\* ---------------------------------------------------------------------------
\* C31: a request for a name under which the service holds no object when
\* the request ends, during which no remote call failed with an error other
\* than not-found, is answered with HttpResponseNotFound and raises nothing;
\* this includes the request during which the object is deleted after
\* storage.exists returned True.
C31_AbsentObjectIsNotFound ==
  [][(/\ sret'.op \in DOMAIN Views
      /\ LatestVersion(b2', sret'.arg[1]) = <<>>
      /\ FailedCalls = {}) =>
       /\ sret'.exc = None
       /\ sret'.val[1] = "HttpResponseNotFound"]_vars

====
